---- MODULE Spec2Model ----
(***************************************************************************)
(* solduino: the transaction/message model (src/transaction.cpp) and its   *)
(* wire codec (src/serializer.cpp).                                        *)
(*                                                                         *)
(* A Message is the record                                                 *)
(*   [header, accountKeys, accountCount, recentBlockhash, instructions,    *)
(*    instructionCount, added]                                             *)
(* and a Transaction the record                                            *)
(*   [signatures, signatureCount, message, isValid].                       *)
(* Every C++ method is an operator from the object (and the arguments) to  *)
(* the object after the call and the value returned; the actions at the    *)
(* end apply these operators to the one Transaction under construction.    *)
(*                                                                         *)
(* Representation.                                                         *)
(*  - A byte array is a sequence of integers 0..255; the null pointer is   *)
(*    NULL.  C index i is TLA+ index i + 1.                                *)
(*  - accountKeys and instructions hold the live entries only (the first   *)
(*    accountCount / instructionCount slots of the C arrays).  The slots   *)
(*    behind them are all-zero in every reachable state: they are zeroed   *)
(*    by the constructor and by reset(), and no path writes a slot without *)
(*    also raising the count.                                              *)
(*  - `added` is a history field, not a field of the C++ class: for every  *)
(*    key of the table, the role flags of the addAccount call that         *)
(*    inserted it.                                                         *)
(*  - An Ed25519 signature is produced by libsodium, outside this          *)
(*    repository.  It is kept symbolic: the pair of the secret key and the *)
(*    bytes signed.  The all-zero 64-byte array is ZeroSignature.          *)
(***************************************************************************)
EXTENDS Integers, Sequences, FiniteSets, TLC

\* ------------------------------------------------------------------------
\* Program constants
\* ------------------------------------------------------------------------
SOLDUINO_PUBKEY_SIZE == 32
BLOCKHASH_SIZE == 32
SIGNATURE_SIZE == 64
SOLDUINO_SECRETKEY_SIZE == 64
MAX_INSTRUCTION_DATA == 256
\* uint8_t messageBuffer[2048] in Transaction::sign
SIGN_BUFFER_SIZE == 2048
\* the sentinel findAccountIndex returns for "not found"
NOT_FOUND == 255

\* ------------------------------------------------------------------------
\* Bounds.  MAX_ACCOUNTS and MAX_INSTRUCTIONS are the compile-time
\* capacities of transaction.h (#ifndef ... #define, defaults 16 and 8);
\* the account table is checked at a small capacity, the instruction
\* table at its default one, which is what lets a message outgrow the
\* signing buffer.
\* ------------------------------------------------------------------------
MAX_ACCOUNTS == 3
MAX_INSTRUCTIONS == 8
\* non-zero public keys Key(1) .. Key(NumKeys); Key(0) is the system program
NumKeys == 3
\* longest account list handed to addInstruction
MaxIxAccounts == 2
\* most key pairs handed to signMultiple
MaxPairs == 2
\* most calls on the transaction between two reset()s
MaxCalls == 3

NULL == <<>>

\* ------------------------------------------------------------------------
\* Fixed-width integers
\* ------------------------------------------------------------------------
ToUint8(x) == x % 256

\* uint8_t -> int8_t (values above 127 wrap to negative, as on every
\* two's-complement build)
ToInt8(x) == IF x % 256 >= 128 THEN (x % 256) - 256 ELSE x % 256

ToUint16(x) == x % 65536

\* ------------------------------------------------------------------------
\* Byte arrays used as inputs
\* ------------------------------------------------------------------------
Key(b) == [i \in 1..SOLDUINO_PUBKEY_SIZE |-> b]

ZeroKey == Key(0)

Blockhash(b) == [i \in 1..BLOCKHASH_SIZE |-> b]

PrivKey(b) == [i \in 1..SOLDUINO_SECRETKEY_SIZE |-> b]

Bytes(n, b) == [i \in 1..n |-> b]

RECURSIVE Flatten(_)
Flatten(ss) == IF ss = <<>> THEN <<>> ELSE Head(ss) \o Flatten(Tail(ss))

\* ------------------------------------------------------------------------
\* Message (src/transaction.cpp)
\* ------------------------------------------------------------------------
ZeroHeader ==
    [numRequiredSignatures |-> 0,
     numReadonlySignedAccounts |-> 0,
     numReadonlyUnsignedAccounts |-> 0]

\* Message::Message()
NewMessage ==
    [header |-> ZeroHeader,
     accountKeys |-> <<>>,
     accountCount |-> 0,
     recentBlockhash |-> Blockhash(0),
     instructions |-> <<>>,
     instructionCount |-> 0,
     added |-> {}]

\* mutant: reset() leaves the recent blockhash where it is
Message_reset_keepsBlockhash(m) == [NewMessage EXCEPT !.recentBlockhash = m.recentBlockhash]

\* Message::reset()
Message_reset(m) == NewMessage

\* Message::isValidAccountIndex
Message_isValidAccountIndex(m, index) == index < m.accountCount

\* Message::findAccountIndex: the first index holding pubkey, else 255
Message_findAccountIndex(m, pubkey) ==
    IF pubkey = NULL THEN NOT_FOUND
    ELSE LET hits == {i \in 0..(m.accountCount - 1) : m.accountKeys[i + 1] = pubkey}
         IN  IF hits = {} THEN NOT_FOUND
             ELSE CHOOSE i \in hits : \A j \in hits : i <= j

\* mutant: a writable non-signer is appended at the end of the table
InsertIndex_appendWritable(m, isSigner, isWritable) ==
    IF isSigner
    THEN IF isWritable
         THEN ToUint8(m.header.numRequiredSignatures - m.header.numReadonlySignedAccounts)
         ELSE m.header.numRequiredSignatures
    ELSE m.accountCount

\* the insertion point Message::addAccount computes (lines 51-71)
InsertIndex(m, isSigner, isWritable) ==
    IF isSigner
    THEN IF isWritable
         THEN ToUint8(m.header.numRequiredSignatures - m.header.numReadonlySignedAccounts)
         ELSE m.header.numRequiredSignatures
    ELSE IF isWritable
         THEN ToUint8(m.accountCount - m.header.numReadonlyUnsignedAccounts)
         ELSE m.accountCount

\* the header update of Message::addAccount (lines 84-94)
BumpHeader(h, isSigner, isWritable) ==
    IF isSigner
    THEN [h EXCEPT !.numRequiredSignatures = ToUint8(@ + 1),
                   !.numReadonlySignedAccounts =
                        IF isWritable THEN @ ELSE ToUint8(@ + 1)]
    ELSE [h EXCEPT !.numReadonlyUnsignedAccounts =
                        IF isWritable THEN @ ELSE ToUint8(@ + 1)]

\* the shift loop and the memcpy of Message::addAccount (lines 73-81)
InsertKey(keys, insertIndex, pubkey) ==
    SubSeq(keys, 1, insertIndex) \o <<pubkey>> \o SubSeq(keys, insertIndex + 1, Len(keys))

\* mutant: addAccount without the capacity test of lines 35-37
Message_addAccount_noCapacity(m, pubkey, isSigner, isWritable) ==
    IF pubkey = NULL
    THEN [m |-> m, ret |-> -1]
    ELSE LET existingIndex == Message_findAccountIndex(m, pubkey)
         IN  IF existingIndex # NOT_FOUND
             THEN [m |-> m, ret |-> ToInt8(existingIndex)]
             ELSE LET insertIndex == InsertIndex(m, isSigner, isWritable)
                  IN  [m |-> [m EXCEPT
                                !.accountKeys = InsertKey(@, insertIndex, pubkey),
                                !.accountCount = ToUint8(@ + 1),
                                !.header = BumpHeader(@, isSigner, isWritable),
                                !.added = @ \cup {[key |-> pubkey,
                                                   isSigner |-> isSigner,
                                                   isWritable |-> isWritable]}],
                       ret |-> ToInt8(insertIndex)]

\* Message::addAccount -> [m, ret], ret the int8_t returned
Message_addAccount(m, pubkey, isSigner, isWritable) ==
    IF pubkey = NULL \/ m.accountCount >= MAX_ACCOUNTS
    THEN [m |-> m, ret |-> -1]
    ELSE LET existingIndex == Message_findAccountIndex(m, pubkey)
         IN  IF existingIndex # NOT_FOUND
             THEN [m |-> m, ret |-> ToInt8(existingIndex)]
             ELSE LET insertIndex == InsertIndex(m, isSigner, isWritable)
                  IN  [m |-> [m EXCEPT
                                !.accountKeys = InsertKey(@, insertIndex, pubkey),
                                !.accountCount = ToUint8(@ + 1),
                                !.header = BumpHeader(@, isSigner, isWritable),
                                !.added = @ \cup {[key |-> pubkey,
                                                   isSigner |-> isSigner,
                                                   isWritable |-> isWritable]}],
                       ret |-> ToInt8(insertIndex)]

\* Message::setRecentBlockhash -> [m, ret]
Message_setRecentBlockhash(m, blockhash) ==
    IF blockhash = NULL
    THEN [m |-> m, ret |-> FALSE]
    ELSE [m |-> [m EXCEPT !.recentBlockhash = blockhash], ret |-> TRUE]

\* `int8_t x = findAccountIndex(..); if (x == 255)` (lines 121-122, 135-136):
\* the uint8_t result is narrowed to int8_t and then compared, as an int,
\* with 255
Int8Is255(found) == ToInt8(found) = 255

\* the account loop of Message::addInstruction (lines 132-142), from array
\* position i with `indices` resolved so far -> [ok, indices]
RECURSIVE ResolveAccounts(_, _, _, _, _)
ResolveAccounts(m, accounts, accountCount, i, indices) ==
    IF ~(i < accountCount /\ Len(indices) < MAX_ACCOUNTS)
    THEN [ok |-> TRUE, indices |-> indices]
    ELSE IF accounts[i + 1] = NULL
         THEN ResolveAccounts(m, accounts, accountCount, i + 1, indices)
         ELSE LET found == Message_findAccountIndex(m, accounts[i + 1])
              IN  IF Int8Is255(found)
                  THEN [ok |-> FALSE, indices |-> indices]
                  ELSE ResolveAccounts(m, accounts, accountCount, i + 1,
                                       Append(indices, ToUint8(ToInt8(found))))

\* mutant: addInstruction without the payload test of lines 114-116
Message_addInstruction_noDataLimit(m, programId, accounts, accountCount, data, dataLength) ==
    IF programId = NULL \/ m.instructionCount >= MAX_INSTRUCTIONS
    THEN [m |-> m, ret |-> FALSE]
    ELSE
      LET found == Message_findAccountIndex(m, programId)
          add == Message_addAccount(m, programId, FALSE, FALSE)
          m1 == IF Int8Is255(found) THEN add.m ELSE m
          programIdIndex == IF Int8Is255(found) THEN add.ret ELSE ToInt8(found)
      IN  IF Int8Is255(found) /\ programIdIndex < 0
          THEN [m |-> m1, ret |-> FALSE]
          ELSE
            LET res == ResolveAccounts(m1, accounts, accountCount, 0, <<>>)
                inst == [programIdIndex |-> ToUint8(programIdIndex),
                         accountIndices |-> res.indices,
                         accountCount |-> Len(res.indices),
                         data |-> IF data # NULL /\ dataLength > 0
                                  THEN SubSeq(data, 1, dataLength) ELSE <<>>,
                         dataLength |-> IF data # NULL /\ dataLength > 0
                                        THEN dataLength ELSE 0]
            IN  IF ~res.ok
                THEN [m |-> m1, ret |-> FALSE]
                ELSE [m |-> [m1 EXCEPT !.instructions = Append(@, inst),
                                       !.instructionCount = ToUint8(@ + 1)],
                      ret |-> TRUE]

\* Message::addInstruction -> [m, ret]
Message_addInstruction(m, programId, accounts, accountCount, data, dataLength) ==
    IF programId = NULL \/ m.instructionCount >= MAX_INSTRUCTIONS
    THEN [m |-> m, ret |-> FALSE]
    ELSE IF dataLength > MAX_INSTRUCTION_DATA
    THEN [m |-> m, ret |-> FALSE]
    ELSE
      LET found == Message_findAccountIndex(m, programId)
          add == Message_addAccount(m, programId, FALSE, FALSE)
          \* the message and the int8_t programIdIndex after lines 121-128
          m1 == IF Int8Is255(found) THEN add.m ELSE m
          programIdIndex == IF Int8Is255(found) THEN add.ret ELSE ToInt8(found)
      IN  IF Int8Is255(found) /\ programIdIndex < 0
          THEN [m |-> m1, ret |-> FALSE]
          ELSE
            LET res == ResolveAccounts(m1, accounts, accountCount, 0, <<>>)
                inst == [programIdIndex |-> ToUint8(programIdIndex),
                         accountIndices |-> res.indices,
                         accountCount |-> Len(res.indices),
                         data |-> IF data # NULL /\ dataLength > 0
                                  THEN SubSeq(data, 1, dataLength) ELSE <<>>,
                         dataLength |-> IF data # NULL /\ dataLength > 0
                                        THEN dataLength ELSE 0]
            IN  IF ~res.ok
                THEN [m |-> m1, ret |-> FALSE]
                ELSE [m |-> [m1 EXCEPT !.instructions = Append(@, inst),
                                       !.instructionCount = ToUint8(@ + 1)],
                      ret |-> TRUE]

\* Message::getAccount -> [ok, pubkey]
Message_getAccount(m, index) ==
    IF ~Message_isValidAccountIndex(m, index)
    THEN [ok |-> FALSE, pubkey |-> NULL]
    ELSE [ok |-> TRUE, pubkey |-> m.accountKeys[index + 1]]

\* Message::getRecentBlockhash
Message_getRecentBlockhash(m) == m.recentBlockhash

\* mutant: every account in the table is reported as a required signer
Message_getHeader_allSigners(m) ==
    [m.header EXCEPT !.numRequiredSignatures = m.accountCount]

\* Message::getHeader
Message_getHeader(m) == m.header

\* ------------------------------------------------------------------------
\* Signatures (src/crypto.cpp, libsodium behind it)
\* ------------------------------------------------------------------------
\* 64 zero bytes, what memset leaves in a signature slot
ZeroSignature == [signer |-> NULL, msg |-> <<>>]

\* libsodium's crypto_sign_ed25519_detached, symbolic: a signature names the
\* secret key and the bytes signed
crypto_sign_ed25519_detached(message, privateKey) ==
    [signer |-> privateKey, msg |-> message]

\* signMessage (crypto.cpp) -> [ret, signature]; sodium_init() is taken to
\* succeed
signMessage(message, messageLen, privateKey) ==
    IF privateKey = NULL
    THEN [ret |-> FALSE, signature |-> ZeroSignature]
    ELSE [ret |-> TRUE,
          signature |-> crypto_sign_ed25519_detached(SubSeq(message, 1, messageLen),
                                                     privateKey)]

\* the 64 bytes of a signature slot as memcpy reads them: byte j of the
\* symbolic signature
SignatureBytes(sig) == [j \in 1..SIGNATURE_SIZE |-> [sig |-> sig, byte |-> j - 1]]

\* ------------------------------------------------------------------------
\* TransactionSerializer (src/serializer.cpp)
\*
\* A write cursor is [buf, offset, oob]: the bytes written so far (every
\* routine writes at `offset` and advances it, so Len(buf) = offset), the
\* uint16_t offset, and whether some byte was written at or beyond maxLen.
\* Every routine returns [ok, s]: the bool returned and the cursor after.
\* ------------------------------------------------------------------------
NewCursor == [buf |-> <<>>, offset |-> 0, oob |-> FALSE]

\* buffer[offset++] = byte
Put(s, maxLen, byte) ==
    [buf |-> Append(s.buf, byte),
     offset |-> ToUint16(s.offset + 1),
     oob |-> s.oob \/ s.offset >= maxLen]

\* memcpy(buffer + offset, bytes, n); offset += n
PutAll(s, maxLen, bytes) ==
    [buf |-> s.buf \o bytes,
     offset |-> ToUint16(s.offset + Len(bytes)),
     oob |-> s.oob \/ (Len(bytes) > 0 /\ s.offset + Len(bytes) > maxLen)]

\* mutant: the continuation bit is never set
RECURSIVE writeCompactU16_noFlag(_, _, _)
writeCompactU16_noFlag(s, maxLen, value) ==
    IF s.offset >= maxLen
    THEN [ok |-> FALSE, s |-> s]
    ELSE LET rest == value \div 128
             s1 == Put(s, maxLen, value % 128)
         IN  IF rest # 0 THEN writeCompactU16_noFlag(s1, maxLen, rest)
             ELSE [ok |-> TRUE, s |-> s1]

\* TransactionSerializer::writeCompactU16: the do-while loop
RECURSIVE writeCompactU16(_, _, _)
writeCompactU16(s, maxLen, value) ==
    IF s.offset >= maxLen
    THEN [ok |-> FALSE, s |-> s]
    ELSE LET rest == value \div 128
             byte == IF rest # 0 THEN (value % 128) + 128 ELSE value % 128
             s1 == Put(s, maxLen, byte)
         IN  IF rest # 0 THEN writeCompactU16(s1, maxLen, rest)
             ELSE [ok |-> TRUE, s |-> s1]

\* mutant: the two readonly counters are emitted in the wrong order
serializeHeader_swapped(s, maxLen, header) ==
    IF s.offset + 3 > maxLen
    THEN [ok |-> FALSE, s |-> s]
    ELSE [ok |-> TRUE,
          s |-> Put(Put(Put(s, maxLen, header.numRequiredSignatures),
                        maxLen, header.numReadonlyUnsignedAccounts),
                    maxLen, header.numReadonlySignedAccounts)]

\* TransactionSerializer::serializeHeader
serializeHeader(s, maxLen, header) ==
    IF s.offset + 3 > maxLen
    THEN [ok |-> FALSE, s |-> s]
    ELSE [ok |-> TRUE,
          s |-> Put(Put(Put(s, maxLen, header.numRequiredSignatures),
                        maxLen, header.numReadonlySignedAccounts),
                    maxLen, header.numReadonlyUnsignedAccounts)]

\* the key loop of serializeAccountKeys, from key i
RECURSIVE PutKeys(_, _, _, _, _)
PutKeys(s, maxLen, accountKeys, accountCount, i) ==
    IF ~(i < accountCount) THEN [ok |-> TRUE, s |-> s]
    ELSE IF s.offset + SOLDUINO_PUBKEY_SIZE > maxLen THEN [ok |-> FALSE, s |-> s]
    ELSE PutKeys(PutAll(s, maxLen, accountKeys[i + 1]), maxLen,
                 accountKeys, accountCount, i + 1)

\* TransactionSerializer::serializeAccountKeys
serializeAccountKeys(s, maxLen, accountKeys, accountCount) ==
    IF s.offset + 1 >= maxLen
    THEN [ok |-> FALSE, s |-> s]
    ELSE LET c == writeCompactU16(s, maxLen, accountCount)
         IN  IF ~c.ok THEN c
             ELSE PutKeys(c.s, maxLen, accountKeys, accountCount, 0)

\* mutant: the room for the 32 bytes is not checked
serializeBlockhash_unchecked(s, maxLen, blockhash) ==
    IF blockhash = NULL THEN [ok |-> FALSE, s |-> s]
    ELSE [ok |-> TRUE, s |-> PutAll(s, maxLen, blockhash)]

\* mutant: an all-zero blockhash is refused
serializeBlockhash_rejectZero(s, maxLen, blockhash) ==
    IF blockhash = NULL \/ s.offset + BLOCKHASH_SIZE > maxLen
       \/ blockhash = [i \in 1..BLOCKHASH_SIZE |-> 0]
    THEN [ok |-> FALSE, s |-> s]
    ELSE [ok |-> TRUE, s |-> PutAll(s, maxLen, blockhash)]

\* TransactionSerializer::serializeBlockhash
serializeBlockhash(s, maxLen, blockhash) ==
    IF blockhash = NULL \/ s.offset + BLOCKHASH_SIZE > maxLen
    THEN [ok |-> FALSE, s |-> s]
    ELSE [ok |-> TRUE, s |-> PutAll(s, maxLen, blockhash)]

\* TransactionSerializer::serializeInstruction
serializeInstruction(s, maxLen, instruction) ==
    IF s.offset + 1 >= maxLen
    THEN [ok |-> FALSE, s |-> s]
    ELSE
      LET s1 == Put(s, maxLen, instruction.programIdIndex)
          c1 == writeCompactU16(s1, maxLen, instruction.accountCount)
      IN  IF ~c1.ok THEN c1
          ELSE IF c1.s.offset + instruction.accountCount > maxLen
          THEN [ok |-> FALSE, s |-> c1.s]
          ELSE
            LET s2 == PutAll(c1.s, maxLen,
                             SubSeq(instruction.accountIndices, 1, instruction.accountCount))
                c2 == writeCompactU16(s2, maxLen, instruction.dataLength)
            IN  IF ~c2.ok THEN c2
                ELSE IF c2.s.offset + instruction.dataLength > maxLen
                THEN [ok |-> FALSE, s |-> c2.s]
                ELSE [ok |-> TRUE,
                      s |-> PutAll(c2.s, maxLen,
                                   SubSeq(instruction.data, 1, instruction.dataLength))]

\* the instruction loop of serializeInstructions, from instruction i
RECURSIVE PutInstructions(_, _, _, _, _)
PutInstructions(s, maxLen, instructions, instructionCount, i) ==
    IF ~(i < instructionCount) THEN [ok |-> TRUE, s |-> s]
    ELSE LET r == serializeInstruction(s, maxLen, instructions[i + 1])
         IN  IF ~r.ok THEN r
             ELSE PutInstructions(r.s, maxLen, instructions, instructionCount, i + 1)

\* TransactionSerializer::serializeInstructions
serializeInstructions(s, maxLen, instructions, instructionCount) ==
    IF s.offset + 1 >= maxLen
    THEN [ok |-> FALSE, s |-> s]
    ELSE LET c == writeCompactU16(s, maxLen, instructionCount)
         IN  IF ~c.ok THEN c
             ELSE PutInstructions(c.s, maxLen, instructions, instructionCount, 0)

\* TransactionSerializer::serializeMessage -> [ret, buffer, serializedLen, oob]:
\* the bool returned, the bytes written into the buffer, the value left in
\* the caller's serializedLen (len0 when the call fails before storing it)
serializeMessage(message, bufferLen, len0) ==
    LET fail(s) == [ret |-> FALSE, buffer |-> s.buf, serializedLen |-> len0, oob |-> s.oob]
    IN
    IF bufferLen = 0 THEN fail(NewCursor)
    ELSE
      LET h == serializeHeader(NewCursor, bufferLen, Message_getHeader(message))
      IN  IF ~h.ok THEN fail(h.s)
      ELSE
      LET accountCount == message.accountCount
          copied == [i \in 1..accountCount |-> Message_getAccount(message, i - 1)]
      IN  IF \E i \in 1..accountCount : ~copied[i].ok THEN fail(h.s)
      ELSE
      LET k == serializeAccountKeys(h.s, bufferLen,
                                    [i \in 1..accountCount |-> copied[i].pubkey],
                                    accountCount)
      IN  IF ~k.ok THEN fail(k.s)
      ELSE
      LET b == serializeBlockhash(k.s, bufferLen, Message_getRecentBlockhash(message))
      IN  IF ~b.ok THEN fail(b.s)
      ELSE
      LET x == serializeInstructions(b.s, bufferLen, message.instructions,
                                     message.instructionCount)
      IN  IF ~x.ok THEN fail(x.s)
          ELSE [ret |-> TRUE, buffer |-> x.s.buf,
                serializedLen |-> x.s.offset, oob |-> x.s.oob]

\* the signature loop of serializeTransaction (lines 195-213), from slot i
RECURSIVE PutSignatures(_, _, _, _)
PutSignatures(s, bufferLen, transaction, i) ==
    IF ~(i < transaction.signatureCount) THEN [ok |-> TRUE, s |-> s]
    ELSE IF s.offset + SIGNATURE_SIZE > bufferLen THEN [ok |-> FALSE, s |-> s]
    ELSE LET isZero == transaction.signatures[i] = ZeroSignature
         IN  IF isZero /\ transaction.signatureCount > 0
             THEN [ok |-> FALSE, s |-> s]
             ELSE PutSignatures(PutAll(s, bufferLen, SignatureBytes(transaction.signatures[i])),
                                bufferLen, transaction, i + 1)

\* TransactionSerializer::serializeTransaction
\*   -> [ret, buffer, serializedLen, oob]
serializeTransaction(transaction, bufferLen, len0) ==
    LET fail(s) == [ret |-> FALSE, buffer |-> s.buf, serializedLen |-> len0, oob |-> s.oob]
    IN
    IF bufferLen = 0 THEN fail(NewCursor)
    ELSE
      LET c == writeCompactU16(NewCursor, bufferLen, transaction.signatureCount)
      IN  IF ~c.ok THEN fail(c.s)
      ELSE
      LET g == PutSignatures(c.s, bufferLen, transaction, 0)
      IN  IF ~g.ok THEN fail(g.s)
      ELSE
      \* serializeMessage(message, buffer + offset, bufferLen - offset, messageLen)
      \* and what follows it, msg being what that call produced
      LET after(msg) ==
              IF ~msg.ret
              THEN fail([buf |-> g.s.buf \o msg.buffer, oob |-> g.s.oob \/ msg.oob])
              ELSE [ret |-> TRUE,
                    buffer |-> g.s.buf \o msg.buffer,
                    serializedLen |-> ToUint16(g.s.offset + msg.serializedLen),
                    oob |-> g.s.oob \/ msg.oob]
      IN  after(serializeMessage(transaction.message,
                                 ToUint16(bufferLen - g.s.offset), 0))

\* ------------------------------------------------------------------------
\* Transaction (src/transaction.cpp)
\* ------------------------------------------------------------------------
ZeroSignatures == [i \in 0..(MAX_ACCOUNTS - 1) |-> ZeroSignature]

\* Transaction::Transaction()
NewTransaction ==
    [signatures |-> ZeroSignatures,
     signatureCount |-> 0,
     message |-> NewMessage,
     isValid |-> FALSE]

\* mutant: reset() leaves isValid as it is
Transaction_reset_keepsValid(t) ==
    [signatures |-> ZeroSignatures,
     signatureCount |-> 0,
     message |-> Message_reset(t.message),
     isValid |-> t.isValid]

\* Transaction::reset()
Transaction_reset(t) ==
    [signatures |-> ZeroSignatures,
     signatureCount |-> 0,
     message |-> Message_reset(t.message),
     isValid |-> FALSE]

\* mutant: the amount is written most significant byte first
TransferData_bigEndian(amount) ==
    <<2 % 256, (2 \div 256) % 256, (2 \div 65536) % 256, (2 \div 16777216) % 256>>
    \o [i \in 1..8 |->
            (amount[((8 - i) \div 2) + 1] \div (IF (8 - i) % 2 = 0 THEN 1 ELSE 256)) % 256]

\* the 12-byte payload built by addTransferInstruction (lines 221-228).  A
\* uint64_t amount is four 16-bit limbs, least significant first, so byte i
\* of the amount, (amount >> (i * 8)) & 0xFF, is byte i % 2 of limb i / 2.
TransferData(amount) ==
    <<2 % 256, (2 \div 256) % 256, (2 \div 65536) % 256, (2 \div 16777216) % 256>>
    \o [i \in 1..8 |->
            (amount[((i - 1) \div 2) + 1] \div (IF (i - 1) % 2 = 0 THEN 1 ELSE 256)) % 256]

\* Transaction::addTransferInstruction -> [t, ret]
Transaction_addTransferInstruction(t, from, to, amount) ==
    IF from = NULL \/ to = NULL
    THEN [t |-> t, ret |-> FALSE]
    ELSE
      LET m0 == Message_reset(t.message)
          systemProgramId == Bytes(SOLDUINO_PUBKEY_SIZE, 0)
          a1 == Message_addAccount(m0, from, TRUE, TRUE)
          a2 == Message_addAccount(a1.m, to, FALSE, TRUE)
          a3 == Message_addAccount(a2.m, systemProgramId, FALSE, FALSE)
          ix == Message_addInstruction(a3.m, systemProgramId, <<from, to>>, 2,
                                       TransferData(amount), 12)
      IN  IF a1.ret < 0 THEN [t |-> [t EXCEPT !.message = a1.m], ret |-> FALSE]
          ELSE IF a2.ret < 0 THEN [t |-> [t EXCEPT !.message = a2.m], ret |-> FALSE]
          ELSE IF a3.ret < 0 THEN [t |-> [t EXCEPT !.message = a3.m], ret |-> FALSE]
          ELSE IF ~ix.ret THEN [t |-> [t EXCEPT !.message = ix.m], ret |-> FALSE]
          ELSE [t |-> [t EXCEPT !.message = ix.m], ret |-> TRUE]

\* Transaction::addInstruction -> [t, ret]
Transaction_addInstruction(t, programId, accounts, accountCount, data, dataLength) ==
    LET r == Message_addInstruction(t.message, programId, accounts, accountCount,
                                    data, dataLength)
    IN  [t |-> [t EXCEPT !.message = r.m], ret |-> r.ret]

\* mutant: setting the blockhash takes the validity away
Transaction_setRecentBlockhash_invalidates(t, blockhash) ==
    LET r == Message_setRecentBlockhash(t.message, blockhash)
    IN  [t |-> [t EXCEPT !.message = r.m, !.isValid = FALSE], ret |-> r.ret]

\* Transaction::setRecentBlockhash -> [t, ret]
Transaction_setRecentBlockhash(t, blockhash) ==
    LET r == Message_setRecentBlockhash(t.message, blockhash)
    IN  [t |-> [t EXCEPT !.message = r.m], ret |-> r.ret]

\* mutant: the slots are not cleared before the new signature is stored
StoreSignature_noClear(sigs, signerIndex, signature) ==
    [sigs EXCEPT ![signerIndex] = signature]

\* memset(signatures, 0, ..); memcpy(signatures[signerIndex], signature, ..)
\* (Transaction::sign, lines 313-315)
StoreSignature(sigs, signerIndex, signature) ==
    [[i \in DOMAIN sigs |-> ZeroSignature] EXCEPT ![signerIndex] = signature]

\* Transaction::sign -> [t, ret]
Transaction_sign(t, privateKey, publicKey) ==
    IF privateKey = NULL \/ publicKey = NULL
    THEN [t |-> t, ret |-> FALSE]
    ELSE
      LET found == Message_findAccountIndex(t.message, publicKey)
          add == Message_addAccount(t.message, publicKey, TRUE, TRUE)
          \* the message and the uint8_t signerIndex after lines 257-265
          m1 == IF found = NOT_FOUND THEN add.m ELSE t.message
          signerIndex == IF found = NOT_FOUND THEN ToUint8(add.ret) ELSE found
          t1 == [t EXCEPT !.message = m1]
      IN  IF found = NOT_FOUND /\ signerIndex = 255
          THEN [t |-> t1, ret |-> FALSE]
          ELSE
      LET header == Message_getHeader(m1)
      IN  IF signerIndex >= header.numRequiredSignatures
          THEN [t |-> t1, ret |-> FALSE]
          ELSE IF signerIndex # 0 /\ signerIndex >= header.numRequiredSignatures
          THEN [t |-> t1, ret |-> FALSE]
          ELSE
      \* lines 282-321, ser being what serializeMessage produced in buffer[2048]
      LET signed(ser) ==
              IF ~ser.ret
              THEN [t |-> t1, ret |-> FALSE]
              ELSE
          LET sg == signMessage(SubSeq(ser.buffer, 1, ser.serializedLen),
                                ser.serializedLen, privateKey)
          IN  IF ~sg.ret
              THEN [t |-> t1, ret |-> FALSE]
              ELSE
          LET t2 == [t1 EXCEPT !.signatureCount = header.numRequiredSignatures]
          IN  IF t2.signatureCount = 0
              THEN [t |-> t2, ret |-> FALSE]
              ELSE IF signerIndex < t2.signatureCount
              THEN [t |-> [t2 EXCEPT
                             !.signatures = StoreSignature(@, signerIndex, sg.signature),
                             !.isValid = TRUE],
                    ret |-> TRUE]
              ELSE [t |-> t2, ret |-> FALSE]
      IN  signed(serializeMessage(m1, SIGN_BUFFER_SIZE, 0))

\* mutant: a pair that fails clears the signatures stored so far
RECURSIVE SignLoop_rollback(_, _, _, _, _, _, _)
SignLoop_rollback(t, privateKeys, publicKeys, count, i, allSuccess, calls) ==
    IF ~(i < count)
    THEN [t |-> t, allSuccess |-> allSuccess, calls |-> calls]
    ELSE LET next(r) ==
                 SignLoop_rollback(
                          IF r.ret THEN r.t
                          ELSE [r.t EXCEPT !.signatures = ZeroSignatures,
                                           !.signatureCount = 0,
                                           !.isValid = FALSE],
                          privateKeys, publicKeys, count, i + 1,
                          IF ~r.ret THEN FALSE ELSE allSuccess,
                          Append(calls, [privateKey |-> privateKeys[i + 1],
                                         publicKey |-> publicKeys[i + 1],
                                         ret |-> r.ret]))
         IN  next(Transaction_sign(t, privateKeys[i + 1], publicKeys[i + 1]))

\* mutant: the loop stops at the first pair that fails
RECURSIVE SignLoop_stopAtFailure(_, _, _, _, _, _, _)
SignLoop_stopAtFailure(t, privateKeys, publicKeys, count, i, allSuccess, calls) ==
    IF ~(i < count) \/ ~allSuccess
    THEN [t |-> t, allSuccess |-> allSuccess, calls |-> calls]
    ELSE LET next(r) ==
                 SignLoop_stopAtFailure(r.t, privateKeys, publicKeys, count, i + 1,
                          IF ~r.ret THEN FALSE ELSE allSuccess,
                          Append(calls, [privateKey |-> privateKeys[i + 1],
                                         publicKey |-> publicKeys[i + 1],
                                         ret |-> r.ret]))
         IN  next(Transaction_sign(t, privateKeys[i + 1], publicKeys[i + 1]))

\* the loop of Transaction::signMultiple (lines 332-336), from pair i
\*   -> [t, allSuccess, calls]; calls is the log of the sign calls made
RECURSIVE SignLoop(_, _, _, _, _, _, _)
SignLoop(t, privateKeys, publicKeys, count, i, allSuccess, calls) ==
    IF ~(i < count)
    THEN [t |-> t, allSuccess |-> allSuccess, calls |-> calls]
    ELSE LET next(r) ==
                 SignLoop(r.t, privateKeys, publicKeys, count, i + 1,
                          IF ~r.ret THEN FALSE ELSE allSuccess,
                          Append(calls, [privateKey |-> privateKeys[i + 1],
                                         publicKey |-> publicKeys[i + 1],
                                         ret |-> r.ret]))
         IN  next(Transaction_sign(t, privateKeys[i + 1], publicKeys[i + 1]))

\* Transaction::signMultiple -> [t, ret, calls]
Transaction_signMultiple(t, privateKeys, publicKeys, count) ==
    IF privateKeys = NULL \/ publicKeys = NULL \/ count = 0
    THEN [t |-> t, ret |-> FALSE, calls |-> <<>>]
    ELSE LET done(r) == [t |-> r.t, ret |-> r.allSuccess, calls |-> r.calls]
         IN  done(SignLoop(t, privateKeys, publicKeys, count, 0, TRUE, <<>>))

\* Transaction::getSignature -> [ok, signature]
Transaction_getSignature(t, index) ==
    IF index >= t.signatureCount
    THEN [ok |-> FALSE, signature |-> ZeroSignature]
    ELSE [ok |-> TRUE, signature |-> t.signatures[index]]

\* ------------------------------------------------------------------------
\* The bundled signing engine (src/src/tweetnacl.c)
\*
\* A gf (i64[16]) is the tuple of its 16 limbs, limb i at position i + 1; a
\* point gf[4] is the tuple of its four gf, p[k] at position k + 1.  The i64
\* arithmetic is exact: at the bounds below no value leaves the 32-bit
\* range.  A local array that the code reads before writing it (q in
\* crypto_sign_detached, q[1..3] in crypto_sign_verify_detached) is an
\* argument of the operator: the caller draws it from StackInputs.
\* ------------------------------------------------------------------------
GF_LIMBS == 16

\* scalarmult's loop runs over bits 255..0 of the scalar; the model runs it
\* over bits ScalarBits-1..0
ScalarBits == 5

\* `next` once the array `a` has been stored: every element of `a` is
\* computed before the step that follows
Stored(a, next) == IF a = a THEN next ELSE a

\* the gf whose limb i is F(i): `for (i = 0; i < 16; i++) o[i] = F(i)`
ForLimbs(F(_)) ==
    <<F(0), F(1), F(2), F(3), F(4), F(5), F(6), F(7),
      F(8), F(9), F(10), F(11), F(12), F(13), F(14), F(15)>>

\* static const gf gf0 = {0}, gf1 = {1}
gf0 == ForLimbs(LAMBDA i : 0)

gf1 == ForLimbs(LAMBDA i : IF i = 0 THEN 1 ELSE 0)

\* bit i of a scalar: (s[i/8] >> (i & 7)) & 1
ScalarBit(s, i) == (s[(i \div 8) + 1] \div (2 ^ (i % 8))) % 2

\* unpack25519
unpack25519(n) ==
    ForLimbs(LAMBDA i :
        IF i = 15 THEN (n[2 * i + 1] + n[2 * i + 2] * 256) % 32768
        ELSE n[2 * i + 1] + n[2 * i + 2] * 256)

\* car25519: the loop from limb i
RECURSIVE car25519_from(_, _)
car25519_from(o, i) ==
    IF i > 15 THEN o
    ELSE LET oi == o[i + 1] + 65536
             c == oi \div 65536
             next == IF i < 15 THEN i + 1 ELSE 0
             o1 == [o EXCEPT ![i + 1] = oi]
             o2 == [o1 EXCEPT ![next + 1] = @ + (c - 1)
                                              + (IF i = 15 THEN 37 * (c - 1) ELSE 0)]
             o3 == [o2 EXCEPT ![i + 1] = @ - c * 65536]
         IN  Stored(o3, car25519_from(o3, i + 1))

car25519(o) == car25519_from(o, 0)

\* sel25519(p, q, b) -> <<p, q>>: c = ~(b - 1) is all ones for b = 1 and 0
\* for b = 0, so the limbs are exchanged exactly when b = 1
sel25519(p, q, b) == IF b = 1 THEN <<q, p>> ELSE <<p, q>>

\* the subtraction loop of pack25519 (limbs 1..14), m being built from t
RECURSIVE pack25519_borrow(_, _, _)
pack25519_borrow(m, t, i) ==
    IF i > 14 THEN m
    ELSE LET mi == t[i + 1] - 65535 - ((m[i] \div 65536) % 2)
             m1 == [m EXCEPT ![i + 1] = mi, ![i] = @ % 65536]
         IN  Stored(m1, pack25519_borrow(m1, t, i + 1))

\* one round (j) of pack25519: t - p, kept when it is not negative
pack25519_round(t) ==
    LET m0 == [gf0 EXCEPT ![1] = t[1] - 65517]
        m1 == pack25519_borrow(m0, t, 1)
        m15 == t[16] - 32767 - ((m1[15] \div 65536) % 2)
        b == (m15 \div 65536) % 2
        m2 == [m1 EXCEPT ![16] = m15, ![15] = @ % 65536]
    IN  sel25519(t, m2, 1 - b)[1]

\* the output loop of pack25519: o[2 * i] = t[i] & 0xff; o[2 * i + 1] = t[i] >> 8
pack25519_bytes(t) ==
    [k \in 1..32 |->
        IF k % 2 = 1 THEN t[((k - 1) \div 2) + 1] % 256
        ELSE (t[((k - 1) \div 2) + 1] \div 256) % 256]

\* pack25519: the 32 bytes of n reduced
pack25519(n) ==
    pack25519_bytes(pack25519_round(pack25519_round(car25519(car25519(car25519(n))))))

\* add(p, q) -> the point left in p
add(p, q) ==
    <<ForLimbs(LAMBDA i : (p[1][i + 1] + p[2][i + 1]) * (q[2][i + 1] + q[3][i + 1])
                          - p[4][i + 1] * q[4][i + 1]),
      ForLimbs(LAMBDA i : p[2][i + 1] * q[2][i + 1]),
      ForLimbs(LAMBDA i : p[3][i + 1] * q[3][i + 1]),
      ForLimbs(LAMBDA i : p[4][i + 1] * q[4][i + 1])>>

\* the ladder of scalarmult from bit i; same: p and q are the same array
\* (crypto_sign_keypair calls scalarmult(p, p, d))
RECURSIVE scalarmult_loop(_, _, _, _, _)
scalarmult_loop(p, q, s, i, same) ==
    IF i < 0 THEN [p |-> p, q |-> q]
    ELSE LET b == ScalarBit(s, i)
             \* sel25519(p[k], q[k], b) -> <<p[k], q[k]>>
             sel(k) == IF same THEN <<p[k + 1], q[k + 1]>>
                       ELSE sel25519(p[k + 1], q[k + 1], b)
             ps == <<sel(0)[1], sel(1)[1], sel(2)[1], sel(3)[1]>>
             qs == <<sel(0)[2], sel(1)[2], sel(2)[2], sel(3)[2]>>
             \* the next bit, p2 and q2 being the arrays after add(p, p)
             rest(p2, q2) == Stored(<<p2, q2>>, scalarmult_loop(p2, q2, s, i - 1, same))
             \* add(p, p), q1 being the array q after add(q, p)
             double(q1) == IF same THEN rest(add(q1, q1), add(q1, q1))
                           ELSE rest(add(ps, ps), q1)
         IN  double(add(qs, ps))

\* scalarmult(p, q, s) -> [p, q]: the two arrays when it returns
scalarmult(q, s, same) ==
    LET p0 == <<gf0, gf1, gf1, gf0>>
    IN  scalarmult_loop(p0, IF same THEN p0 ELSE q, s, ScalarBits - 1, same)

\* the loop of scalarmult starts at bit 255: `for (i = 255; i >= 0; --i)`
LADDER_TOP == 255

\* the calls one iteration i of the loop makes, in order, b being the bit
\* of the scalar it has read: sel25519(p[k], q[k], b) for k = 0..3,
\* add(q, p), add(p, p)
LadderCalls(b) ==
    <<<<"sel25519", 0, b>>, <<"sel25519", 1, b>>, <<"sel25519", 2, b>>,
      <<"sel25519", 3, b>>, <<"add", "q", "p">>, <<"add", "p", "p">>>>

\* mutant: an iteration whose bit is 0 makes no select
scalarmult_iteration_skipZero(s, i) ==
    [i |-> i,
     calls |-> IF ScalarBit(s, i) = 0 THEN <<<<"add", "q", "p">>, <<"add", "p", "p">>>>
               ELSE LadderCalls(ScalarBit(s, i))]

\* the control flow of one iteration of scalarmult's loop, the arithmetic
\* left out: the bit index and the calls made.  The body has no break,
\* continue or return and does not assign i.
scalarmult_iteration(s, i) ==
    [i |-> i, calls |-> LadderCalls(ScalarBit(s, i))]

\* crypto_verify_32: 0 when the 32 bytes are equal, -1 otherwise
crypto_verify_32(x, y) ==
    IF \A i \in 1..32 : x[i] = y[i] THEN 0 ELSE -1

\* sha512_init / sha512_update / sha512_final hand the bytes to the
\* platform's SHA-512 (mbedtls or the Arduino SHA512 class), which is not
\* part of the sources.  It is a deterministic function of the bytes hashed:
\* the model has one such function per key, the 64-byte digest of `data`
\* under `key`.
RECURSIVE sha512_absorb(_, _, _)
sha512_absorb(data, first, last) ==
    IF first > last THEN 0
    ELSE IF first = last THEN (first * (data[first] + 1)) % 65521
    ELSE LET mid == (first + last) \div 2
         IN  (sha512_absorb(data, first, mid) * 31
              + sha512_absorb(data, mid + 1, last)) % 65521

sha512(key, data) ==
    LET a == sha512_absorb(data, 1, Len(data)) + key + 1
    IN  Stored(a, [k \in 1..64 |-> ((a + key) * (k + key) + a \div 256) % 256])

\* d[0] &= 248; d[31] &= 127; d[31] |= 64
ClampScalar(d) ==
    [d EXCEPT ![1] = @ - (@ % 8),
              ![32] = IF ((@ % 128) \div 64) % 2 = 1 THEN @ % 128 ELSE (@ % 128) + 64]

\* crypto_sign_keypair, seed being what randombytes wrote into sk[0..31]
\*   -> [ret, pk, sk]
crypto_sign_keypair(seed, key) ==
    LET d == ClampScalar(sha512(key, seed))
        p == scalarmult(<<>>, d, TRUE).p
        pk == pack25519(p[1])
    IN  [ret |-> 0, pk |-> pk, sk |-> seed \o pk]

\* crypto_sign_detached -> [ret, sig, siglen]; q is what the local array q
\* holds when the function starts (the code never initializes it)
crypto_sign_detached(m, mlen, sk, q, key) ==
    LET d == ClampScalar(sha512(key, SubSeq(sk, 1, 32)))
        r == sha512(key, SubSeq(d, 33, 64) \o SubSeq(m, 1, mlen))
        first == scalarmult(q, r, FALSE)
        sigR == pack25519(first.p[1])
        h == sha512(key, sigR \o SubSeq(sk, 33, 64) \o SubSeq(m, 1, mlen))
        second == scalarmult(first.q, h, FALSE)
        sigS == pack25519(second.p[1])
    IN  [ret |-> 0, sig |-> sigR \o sigS, siglen |-> 64]

\* crypto_sign_verify_detached -> 0 or -1; q is what the local array q
\* holds when the function starts: only q[0] is written before scalarmult
\* reads q[0..3]
crypto_sign_verify_detached(sig, m, mlen, pk, q, key) ==
    IF sig[64] \div 32 # 0 THEN -1
    ELSE LET q1 == [q EXCEPT ![1] = unpack25519(pk)]
             h == sha512(key, SubSeq(sig, 1, 32) \o pk \o SubSeq(m, 1, mlen))
             p == scalarmult(q1, h, FALSE).p
             t == pack25519(p[1])
         IN  crypto_verify_32(SubSeq(sig, 33, 64), t)

\* the engine's caller before any call
NewNacl ==
    [op |-> "new", key |-> 0, pk |-> <<>>, sk |-> <<>>, m |-> <<>>,
     stack |-> <<>>, sig |-> <<>>, ret |-> 0]

\* ------------------------------------------------------------------------
\* The text codecs (crypto.cpp, serializer.cpp).  A text is the sequence of
\* the character codes before its terminating '\0'; a byte array and a text
\* are passed by value, the array NULL standing for a null pointer or an
\* empty base58 input (both take the first return).
\* ------------------------------------------------------------------------
\* the width of size_t: 16 bits on the 8-bit boards, more on the others; a
\* wrapped length only grows with the width
SizeBits == 16

ToSizeT(x) == x % (2 ^ SizeBits)

\* BASE58_ALPHABET, "123456789ABC...xyz" without 0, O, I and l
base58_chars ==
    <<
      49, 50, 51, 52, 53, 54, 55, 56, 57, 65, 66, 67, 68, 69, 70, 71,
      72, 74, 75, 76, 77, 78, 80, 81, 82, 83, 84, 85, 86, 87, 88, 89,
      90, 97, 98, 99, 100, 101, 102, 103, 104, 105, 106, 107, 109, 110, 111, 112,
      113, 114, 115, 116, 117, 118, 119, 120, 121, 122 >>

\* "ABC...XYZabc...xyz0123456789+/"
base64_chars ==
    <<
      65, 66, 67, 68, 69, 70, 71, 72, 73, 74, 75, 76, 77, 78, 79, 80,
      81, 82, 83, 84, 85, 86, 87, 88, 89, 90, 97, 98, 99, 100, 101, 102,
      103, 104, 105, 106, 107, 108, 109, 110, 111, 112, 113, 114, 115, 116, 117, 118,
      119, 120, 121, 122, 48, 49, 50, 51, 52, 53, 54, 55, 56, 57, 43, 47 >>

\* the characters '1' and '='
CHAR_ONE == 49
CHAR_PAD == 61

\* strchr(chars, c) - chars, or the charTable entry of c: the position of c
\* in the alphabet, -1 when it is not there
IndexIn(chars, c) ==
    IF \E k \in 1..Len(chars) : chars[k] = c
    THEN (CHOOSE k \in 1..Len(chars) : chars[k] = c) - 1
    ELSE -1

\* while (n < len && s[n] == v) n++;
RECURSIVE SkipWhile(_, _, _, _)
SkipWhile(s, v, n, len) ==
    IF n < len /\ s[n + 1] = v THEN SkipWhile(s, v, n + 1, len) ELSE n

\* the reversal loop of base58Encode
Reverse(s) == [i \in 1..Len(s) |-> s[Len(s) + 1 - i]]

\* one division of buffer[start..len) by 58 (the for loop inside the while
\* loop of base58Encode) -> <<buffer, remainder>>
RECURSIVE base58_divide(_, _, _, _)
base58_divide(buffer, len, i, remainder) ==
    IF ~(i < len) THEN <<buffer, remainder>>
    ELSE LET r == remainder * 256 + buffer[i + 1]
             step(b2) == Stored(b2, base58_divide(b2, len, i + 1, r % 58))
         IN  step([buffer EXCEPT ![i + 1] = ToUint8(r \div 58)])

\* the while (start < len) loop of base58Encode -> the characters in output
RECURSIVE base58_digits(_, _, _, _, _)
base58_digits(buffer, len, start, output, outputLen) ==
    IF ~(start < len) THEN output
    ELSE LET after(d) ==
                 IF Len(output) >= outputLen - 1 THEN output
                 ELSE LET step(out2) ==
                              Stored(out2, base58_digits(d[1], len,
                                                         SkipWhile(d[1], 0, start, len),
                                                         out2, outputLen))
                      IN  step(Append(output, base58_chars[d[2] + 1]))
         IN  after(base58_divide(buffer, len, start, 0))

\* base58Encode(data, len, output, outputLen) -> [ret, output]
base58Encode(data, len, outputLen) ==
    IF data = NULL \/ len = 0 \/ outputLen = 0 THEN [ret |-> 0, output |-> <<>>]
    ELSE LET zeros == SkipWhile(data, 0, 0, len)
             ones == IF zeros < outputLen - 1 THEN zeros ELSE outputLen - 1
             done(out) == [ret |-> Len(out), output |-> Reverse(out)]
             \* memcpy(buffer, data, len)
             buffer == SubSeq(data, 1, len)
         IN  done(base58_digits(buffer, len, zeros, [i \in 1..ones |-> CHAR_ONE],
                                outputLen))

\* the for (j ...) loop of base58Decode: buffer = buffer * 58 + carry
RECURSIVE base58_carry(_, _, _, _)
base58_carry(buffer, n, j, carry) ==
    IF ~(j < n) THEN buffer
    ELSE LET c == carry + buffer[j + 1] * 58
             step(b2) == Stored(b2, base58_carry(b2, n, j + 1, c \div 256))
         IN  step([buffer EXCEPT ![j + 1] = c % 256])

\* the for (i = zeros ...) loop of base58Decode -> [ok, buffer]
RECURSIVE base58_convert(_, _, _, _)
base58_convert(input, inputLen, i, buffer) ==
    IF ~(i < inputLen) THEN [ok |-> TRUE, buffer |-> buffer]
    ELSE LET value == IndexIn(base58_chars, input[i + 1])
             step(b2) == Stored(b2, base58_convert(input, inputLen, i + 1, b2))
         IN  IF value < 0 THEN [ok |-> FALSE, buffer |-> buffer]
             ELSE step(base58_carry(buffer, inputLen * 2, 0, value))

\* base58Decode(input, output, outputLen) -> [ret, output]: output is what
\* the call wrote, the outputLen bytes of the array when it succeeds
base58Decode(input, outputLen) ==
    IF input = NULL \/ outputLen = 0 THEN [ret |-> 0, output |-> <<>>]
    ELSE LET inputLen == Len(input)
             zeros == SkipWhile(input, CHAR_ONE, 0, inputLen)
             done(c) ==
                 LET used == {i \in 1..(inputLen * 2) : c.buffer[i] # 0}
                     resultLen == zeros + (IF used = {} THEN 0
                                           ELSE CHOOSE i \in used : \A k \in used : k <= i)
                 IN  IF ~c.ok \/ resultLen > outputLen THEN [ret |-> 0, output |-> <<>>]
                     ELSE [ret |-> resultLen,
                           output |-> [k \in 1..outputLen |->
                                         IF k > zeros /\ k <= resultLen
                                         THEN c.buffer[resultLen - k + 1] ELSE 0]]
             \* memset(buffer, 0, inputLen * 2)
             buffer == SubSeq([i \in 1..(inputLen * 2) |-> 0], 1, inputLen * 2)
         IN  done(base58_convert(input, inputLen, zeros, buffer))

\* the for (i = 0; i < dataLen - 2; i += 3) loop of Base64::encode, mem
\* being the data followed by the bytes that lie behind them
\*   -> [i, output, readPast, trap]: trap when a read leaves mem
RECURSIVE Base64_groups(_, _, _, _, _, _)
Base64_groups(mem, dataLen, limit, i, output, readPast) ==
    IF ~(i < limit)
    THEN [i |-> i, output |-> output, readPast |-> readPast, trap |-> FALSE]
    ELSE IF i + 3 > Len(mem)
    THEN [i |-> i, output |-> output, readPast |-> TRUE, trap |-> TRUE]
    ELSE LET a == mem[i + 1]
             b == mem[i + 2]
             c == mem[i + 3]
             step(out2) == Stored(out2, Base64_groups(mem, dataLen, limit, ToSizeT(i + 3),
                                                      out2, readPast \/ i + 3 > dataLen))
         IN  step(output \o <<base64_chars[(a \div 4) + 1],
                              base64_chars[((a % 4) * 16 + (b \div 16)) + 1],
                              base64_chars[((b % 16) * 4 + (c \div 64)) + 1],
                              base64_chars[(c % 64) + 1]>>)

\* Base64::encode(data, dataLen, output, outputLen)
\*   -> [ret, output, readPast, wrotePast, returned]
\* data and output are arrays (an empty array is not a null pointer); past
\* is what memory holds behind the dataLen bytes.  readPast: the call read
\* data[k] with k >= dataLen; wrotePast: it wrote output[k] with
\* k >= outputLen; returned is FALSE when a read left the memory there is.
Base64_encode(data, dataLen, outputLen, past) ==
    LET encodedLen == ToSizeT(((dataLen + 2) \div 3) * 4)
    IN
    IF outputLen = 0 \/ encodedLen + 1 > outputLen
    THEN [ret |-> 0, output |-> <<>>, readPast |-> FALSE, wrotePast |-> FALSE,
          returned |-> TRUE]
    ELSE
      LET tail(g) ==
              LET i == g.i
                  last == IF ~(i < dataLen) THEN <<>>
                          ELSE IF i = dataLen - 1
                          THEN <<base64_chars[(data[i + 1] \div 4) + 1],
                                 base64_chars[((data[i + 1] % 4) * 16) + 1],
                                 CHAR_PAD, CHAR_PAD>>
                          ELSE <<base64_chars[(data[i + 1] \div 4) + 1],
                                 base64_chars[((data[i + 1] % 4) * 16
                                               + (data[i + 2] \div 16)) + 1],
                                 base64_chars[((data[i + 2] % 16) * 4) + 1],
                                 CHAR_PAD>>
                  out == IF g.trap THEN g.output ELSE g.output \o last
              IN  [ret |-> IF g.trap THEN 0 ELSE Len(out),
                   output |-> out,
                   readPast |-> g.readPast,
                   wrotePast |-> Len(out) + 1 > outputLen,
                   returned |-> ~g.trap]
      IN  tail(Base64_groups(data \o past, dataLen, ToSizeT(dataLen - 2), 0, <<>>, FALSE))

\* the three bytes of a group of Base64::decode, as many as fit: room is
\* outputLen - j, n how many of them the branch stores
Base64_bytes(in, n, room) ==
    SubSeq(<<ToUint8(in[1] * 4 + (in[2] \div 16)),
             ToUint8((in[2] % 16) * 16 + (in[3] \div 4)),
             ToUint8((in[3] % 4) * 64 + in[4])>>,
           1, IF n < room THEN n ELSE room)

\* the while loop of Base64::decode -> [output, in, inIdx]
RECURSIVE Base64_scan(_, _, _, _, _, _, _)
Base64_scan(input, inputLen, outputLen, i, output, in, inIdx) ==
    IF ~(i < inputLen /\ Len(output) < outputLen)
    THEN [output |-> output, in |-> in, inIdx |-> inIdx]
    ELSE IF input[i + 1] = CHAR_PAD
    THEN [output |-> output \o (IF inIdx = 2 THEN Base64_bytes(in, 1, outputLen - Len(output))
                                ELSE IF inIdx = 3
                                THEN Base64_bytes(in, 2, outputLen - Len(output))
                                ELSE <<>>),
          in |-> in, inIdx |-> inIdx]
    ELSE LET c == IndexIn(base64_chars, input[i + 1])
         IN  IF c < 0
             THEN Base64_scan(input, inputLen, outputLen, i + 1, output, in, inIdx)
             ELSE LET in2 == [in EXCEPT ![inIdx + 1] = c]
                      step(out2) ==
                          Stored(out2, Base64_scan(input, inputLen, outputLen, i + 1, out2,
                                                   in2, IF inIdx + 1 = 4 THEN 0 ELSE inIdx + 1))
                  IN  step(IF inIdx + 1 = 4
                           THEN output \o Base64_bytes(in2, 3, outputLen - Len(output))
                           ELSE output)

\* Base64::decode(input, output, outputLen) -> [ret, output]
\* uint8_t in[4] is written before it is read: in[0..k) are set when
\* inIdx = k, and no branch reads in[k] or above
Base64_decode(input, outputLen) ==
    IF outputLen = 0 \/ Len(input) = 0 THEN [ret |-> 0, output |-> <<>>]
    ELSE LET done(s) ==
                 LET rest == IF s.inIdx >= 2 /\ Len(s.output) < outputLen
                             THEN Base64_bytes(s.in, IF s.inIdx >= 3 THEN 2 ELSE 1,
                                               outputLen - Len(s.output))
                             ELSE <<>>
                 IN  [ret |-> Len(s.output) + Len(rest), output |-> s.output \o rest]
         IN  done(Base64_scan(input, Len(input), outputLen, 0, <<>>, <<0, 0, 0, 0>>, 0))

\* mutant: the size estimate leaves the instruction data out
calculateMessageSize_noData(m) ==
    LET per(i) == 1 + 2 + m.instructions[i].accountCount + 2
        RECURSIVE total(_)
        total(i) == IF i > m.instructionCount THEN 0 ELSE per(i) + total(i + 1)
    IN  ToUint16(3 + 2 + m.accountCount * SOLDUINO_PUBKEY_SIZE + BLOCKHASH_SIZE + 2 + total(1))

\* TransactionSerializer::calculateMessageSize
calculateMessageSize(m) ==
    LET per(i) == 1 + 2 + m.instructions[i].accountCount + 2 + m.instructions[i].dataLength
        RECURSIVE total(_)
        total(i) == IF i > m.instructionCount THEN 0 ELSE per(i) + total(i + 1)
    IN  ToUint16(3 + 2 + m.accountCount * SOLDUINO_PUBKEY_SIZE + BLOCKHASH_SIZE + 2 + total(1))

\* TransactionSerializer::calculateTransactionSize
calculateTransactionSize(t) ==
    ToUint16(2 + t.signatureCount * SIGNATURE_SIZE + calculateMessageSize(t.message))

\* TransactionSerializer::encodeTransactionBase58 -> [ret, output]
encodeTransactionBase58(transaction, outputLen) ==
    IF outputLen = 0 THEN [ret |-> FALSE, output |-> <<>>]
    ELSE LET estimatedSize == calculateTransactionSize(transaction)
             encoded(ser) ==
                 IF ~ser.ret THEN [ret |-> FALSE, output |-> <<>>]
                 ELSE LET e == base58Encode(ser.buffer, ser.serializedLen, outputLen)
                      IN  [ret |-> e.ret > 0, output |-> e.output]
         IN  encoded(serializeTransaction(transaction, estimatedSize + 100, 0))

\* the caller of the codecs before any call
NewCodec ==
    [op |-> "new", data |-> <<>>, text |-> <<>>, outputLen |-> 0, out |-> <<>>,
     ret |-> 0, readPast |-> FALSE, wrotePast |-> FALSE, returned |-> TRUE]

\* ------------------------------------------------------------------------
\* The state machine: one Transaction and the calls a client makes on it
\* ------------------------------------------------------------------------
VARIABLES
    signatures,       \* Transaction::signatures
    signatureCount,   \* Transaction::signatureCount
    message,          \* Transaction::message
    isValid,          \* Transaction::isValid
    op,               \* the last call made
    ret,              \* the value it returned
    arg,              \* the arguments it was given
    blockhashCalled,  \* history: setRecentBlockhash succeeded since construction / reset()
    calls,            \* history: calls made since construction / reset()
    nacl,             \* the caller of the bundled signing engine: last call, its data
    codec             \* the caller of the text codecs: last call, its data

\* the variables of the Transaction state machine
txvars == <<signatures, signatureCount, message, isValid, op, ret, arg, blockhashCalled, calls>>

vars == <<signatures, signatureCount, message, isValid, op, ret, arg, blockhashCalled, calls,
          nacl, codec>>

\* the Transaction object
Tx ==
    [signatures |-> signatures,
     signatureCount |-> signatureCount,
     message |-> message,
     isValid |-> isValid]

\* the object after a call
Becomes(t) ==
    /\ signatures' = t.signatures
    /\ signatureCount' = t.signatureCount
    /\ message' = t.message
    /\ isValid' = t.isValid

\* ---- inputs ----
\* public keys: a null pointer, the all-zero key, Key(1)..Key(NumKeys)
PubkeyInputs == {NULL} \cup {Key(b) : b \in 0..NumKeys}

BlockhashInputs == {NULL, Blockhash(0), Blockhash(7)}

\* amounts as four 16-bit limbs: 0x0102 and 0x0807060504030201
AmountInputs == {<<258, 0, 0, 0>>, <<513, 1027, 1541, 2055>>}

\* account lists of at most MaxIxAccounts entries
AccountLists == UNION {[1..n -> PubkeyInputs] : n \in 0..MaxIxAccounts}

\* (data, dataLength) pairs: no data, a null pointer with a length, a short
\* payload, one whose length needs a two-byte compact-u16, one too long
DataInputs ==
    {[data |-> NULL, dataLength |-> 0],
     [data |-> NULL, dataLength |-> 5],
     [data |-> <<170, 187, 204>>, dataLength |-> 3],
     [data |-> Bytes(130, 9), dataLength |-> 130],
     [data |-> Bytes(MAX_INSTRUCTION_DATA + 1, 1), dataLength |-> MAX_INSTRUCTION_DATA + 1]}

\* (privateKey, publicKey) pairs: the keypairs of Key(0)..Key(NumKeys), and
\* pairs with a null pointer
KeyPairInputs ==
    {[privateKey |-> PrivKey(b), publicKey |-> Key(b)] : b \in 0..NumKeys}
    \cup {[privateKey |-> NULL, publicKey |-> Key(1)],
          [privateKey |-> PrivKey(1), publicKey |-> NULL],
          [privateKey |-> PrivKey(1), publicKey |-> Key(2)]}

PairLists == UNION {[1..n -> KeyPairInputs] : n \in 0..MaxPairs}

BufferLenInputs == {0, 64, SIGN_BUFFER_SIZE}

\* The calls the client of the state machine makes draw from these narrower
\* sets (the properties quantify over the full sets above in every state).
CallProgramInputs == {Key(0), Key(NumKeys)}

CallAccountLists == {<<>>, <<Key(1)>>, <<Key(2), NULL, Key(1)>>}

CallDataInputs ==
    {[data |-> NULL, dataLength |-> 0],
     [data |-> Bytes(130, 9), dataLength |-> 130],
     [data |-> Bytes(MAX_INSTRUCTION_DATA + 1, 1), dataLength |-> MAX_INSTRUCTION_DATA + 1]}

CallTransferInputs ==
    {[from |-> Key(1), to |-> Key(2), amount |-> <<513, 1027, 1541, 2055>>],
     [from |-> Key(2), to |-> Key(2), amount |-> <<258, 0, 0, 0>>],
     [from |-> NULL, to |-> Key(1), amount |-> <<258, 0, 0, 0>>]}

CallKeyPairInputs ==
    {[privateKey |-> PrivKey(b), publicKey |-> Key(b)] : b \in 1..2}
    \cup {[privateKey |-> NULL, publicKey |-> Key(1)]}

CallPairLists ==
    {<<>>,
     <<[privateKey |-> PrivKey(1), publicKey |-> Key(1)],
       [privateKey |-> PrivKey(2), publicKey |-> Key(2)]>>,
     <<[privateKey |-> NULL, publicKey |-> Key(1)],
       [privateKey |-> PrivKey(2), publicKey |-> Key(2)]>>,
     <<[privateKey |-> PrivKey(3), publicKey |-> Key(3)]>>}

\* ---- actions ----
Init ==
    /\ signatures = NewTransaction.signatures
    /\ signatureCount = NewTransaction.signatureCount
    /\ message = NewTransaction.message
    /\ isValid = NewTransaction.isValid
    /\ op = "new"
    /\ ret = TRUE
    /\ arg = <<>>
    /\ blockhashCalled = FALSE
    /\ calls = 0
    /\ nacl = NewNacl
    /\ codec = NewCodec

\* a call on the object: at most MaxCalls of them between two reset()s
\* r is [t, ret]: the object after the call and the value returned
Call(name, args, r) ==
    /\ calls < MaxCalls
    /\ calls' = calls + 1
    /\ Becomes(r.t)
    /\ op' = name
    /\ arg' = args
    /\ ret' = r.ret
    /\ UNCHANGED <<nacl, codec>>

\* tx.getMessage().addAccount(pubkey, isSigner, isWritable)
AddAccount ==
    \E pubkey \in PubkeyInputs, isSigner \in BOOLEAN, isWritable \in BOOLEAN :
        LET r == Message_addAccount(message, pubkey, isSigner, isWritable)
        IN  /\ Call("addAccount", <<pubkey, isSigner, isWritable>>, [t |-> [Tx EXCEPT !.message = r.m], ret |-> r.ret])
            /\ UNCHANGED blockhashCalled

\* tx.setRecentBlockhash(blockhash)
SetRecentBlockhash ==
    \E blockhash \in {NULL, Blockhash(7)} :
        LET r == Transaction_setRecentBlockhash(Tx, blockhash)
        IN  /\ Call("setRecentBlockhash", <<blockhash>>, r)
            /\ blockhashCalled' = (blockhashCalled \/ r.ret)

\* tx.addInstruction(programId, accounts, accountCount, data, dataLength)
AddInstruction ==
    \E programId \in CallProgramInputs, accounts \in CallAccountLists, d \in CallDataInputs :
        LET r == Transaction_addInstruction(Tx, programId, accounts, Len(accounts),
                                            d.data, d.dataLength)
        IN  /\ Call("addInstruction", <<programId, accounts, d>>, r)
            /\ UNCHANGED blockhashCalled

\* tx.addTransferInstruction(from, to, amount)
AddTransferInstruction ==
    \E x \in CallTransferInputs :
        LET r == Transaction_addTransferInstruction(Tx, x.from, x.to, x.amount)
        IN  /\ Call("addTransferInstruction", <<x.from, x.to, x.amount>>, r)
            /\ UNCHANGED blockhashCalled

\* tx.sign(privateKey, publicKey)
Sign ==
    \E kp \in CallKeyPairInputs :
        LET r == Transaction_sign(Tx, kp.privateKey, kp.publicKey)
        IN  /\ Call("sign", <<kp.privateKey, kp.publicKey>>, r)
            /\ UNCHANGED blockhashCalled

\* tx.signMultiple(privateKeys, publicKeys, count)
SignMultiple ==
    \E pairs \in CallPairLists :
        LET r == Transaction_signMultiple(
                     Tx,
                     [i \in 1..Len(pairs) |-> pairs[i].privateKey],
                     [i \in 1..Len(pairs) |-> pairs[i].publicKey],
                     Len(pairs))
        IN  /\ Call("signMultiple", pairs, r)
            /\ UNCHANGED blockhashCalled

\* TransactionSerializer::serializeTransaction(tx, buffer, bufferLen, len)
SerializeTransaction ==
    \E bufferLen \in {64, SIGN_BUFFER_SIZE} :
        LET r == serializeTransaction(Tx, bufferLen, 0)
        IN  /\ Call("serializeTransaction", <<bufferLen>>, [t |-> Tx, ret |-> r.ret])
            /\ UNCHANGED blockhashCalled

\* tx.reset()
Reset ==
    /\ Becomes(Transaction_reset(Tx))
    /\ op' = "reset"
    /\ arg' = <<>>
    /\ ret' = TRUE
    /\ blockhashCalled' = FALSE
    /\ calls' = 0
    /\ UNCHANGED <<nacl, codec>>

Next ==
    \/ AddAccount
    \/ SetRecentBlockhash
    \/ AddInstruction
    \/ AddTransferInstruction
    \/ Sign
    \/ SignMultiple
    \/ SerializeTransaction
    \/ Reset

Spec == Init /\ [][Next]_vars

\* ------------------------------------------------------------------------
\* writeCompactU16 on its own: every uint16_t value, written at offset 0 or
\* behind bytes already in the buffer, into buffers with and without room.
\* codec holds the call and its outcome.
\* ------------------------------------------------------------------------
UINT16_MAX == 65535
CompactValueInputs == 0..UINT16_MAX
CompactOffsetInputs == {0, 2}
CompactMaxLenInputs == {0, 2, 3, 4, 5}

\* TransactionSerializer::writeCompactU16(buffer, offset, maxLen, value)
WriteCompactU16 ==
    /\ codec.op = "new"
    /\ \E value \in CompactValueInputs, offset \in CompactOffsetInputs,
          maxLen \in CompactMaxLenInputs :
          LET r == writeCompactU16([buf |-> Bytes(offset, 0), offset |-> offset, oob |-> FALSE],
                                   maxLen, value)
          IN  codec' = [op |-> "writeCompactU16", value |-> value, offset0 |-> offset,
                        maxLen |-> maxLen, ret |-> r.ok, buffer |-> r.s.buf,
                        offset |-> r.s.offset, oob |-> r.s.oob]
    /\ UNCHANGED <<txvars, nacl>>

NextCompact == WriteCompactU16

SpecCompact == Init /\ [][NextCompact]_vars

\* ------------------------------------------------------------------------
\* The ladder of scalarmult on its own, over 32-byte scalars: all bytes
\* equal, and one byte set in an otherwise zero scalar.  nacl holds the
\* scalar, the loop variable i and the iterations gone through so far.
\* ------------------------------------------------------------------------
ScalarInputs ==
    {Bytes(32, b) : b \in {0, 1, 128, 165, 255}}
    \cup {[k \in 1..32 |-> IF k = at THEN b ELSE 0] : at \in {1, 16, 32}, b \in {1, 128}}

\* scalarmult(p, q, s) up to the loop: `i = 255`
Scalarmult ==
    /\ nacl.op = "new"
    /\ \E s \in ScalarInputs :
          nacl' = [op |-> "scalarmult", s |-> s, i |-> LADDER_TOP, iterations |-> <<>>]
    /\ UNCHANGED <<txvars, codec>>

\* one pass through the loop: `i >= 0`, the body, `--i`
ScalarmultIteration ==
    /\ nacl.op = "scalarmult"
    /\ nacl.i >= 0
    /\ nacl' = [nacl EXCEPT !.iterations = Append(@, scalarmult_iteration(nacl.s, nacl.i)),
                            !.i = @ - 1]
    /\ UNCHANGED <<txvars, codec>>

NextLadder ==
    \/ Scalarmult
    \/ ScalarmultIteration

SpecLadder == Init /\ [][NextLadder]_vars

\* ------------------------------------------------------------------------
\* Short transactions for the serializers: a few instructions, with a
\* payload short enough for a one-byte length and one long enough for a
\* two-byte length, and up to two signers.
\* ------------------------------------------------------------------------
ShortAccountLists == {<<>>, <<Key(1)>>}

ShortDataInputs ==
    {[data |-> NULL, dataLength |-> 0],
     [data |-> Bytes(130, 9), dataLength |-> 130]}

ShortKeyPairInputs == {[privateKey |-> PrivKey(b), publicKey |-> Key(b)] : b \in 1..2}

\* tx.addInstruction(programId, accounts, accountCount, data, dataLength)
ShortInstruction ==
    \E accounts \in ShortAccountLists, d \in ShortDataInputs :
        LET r == Transaction_addInstruction(Tx, Key(0), accounts, Len(accounts),
                                            d.data, d.dataLength)
        IN  /\ Call("addInstruction", <<Key(0), accounts, d>>, r)
            /\ UNCHANGED blockhashCalled

\* tx.sign(privateKey, publicKey)
ShortSign ==
    \E kp \in ShortKeyPairInputs :
        LET r == Transaction_sign(Tx, kp.privateKey, kp.publicKey)
        IN  /\ Call("sign", <<kp.privateKey, kp.publicKey>>, r)
            /\ UNCHANGED blockhashCalled

NextShort ==
    \/ ShortInstruction
    \/ ShortSign

SpecShort == Init /\ [][NextShort]_vars

\* ------------------------------------------------------------------------
\* The transaction loaded up to its instruction capacity: the program
\* account is registered, instructions with the largest payload (and with
\* a payload one byte too long) are added until addInstruction refuses,
\* and the transaction is signed at any point.  These calls are not
\* counted: the capacity bounds them.
\* ------------------------------------------------------------------------
LoadDataInputs ==
    {[data |-> Bytes(MAX_INSTRUCTION_DATA, 5), dataLength |-> MAX_INSTRUCTION_DATA],
     [data |-> Bytes(MAX_INSTRUCTION_DATA + 1, 1), dataLength |-> MAX_INSTRUCTION_DATA + 1]}

\* a call that is not counted
LoadCall(name, args, r) ==
    /\ Becomes(r.t)
    /\ op' = name
    /\ arg' = args
    /\ ret' = r.ret
    /\ UNCHANGED <<calls, nacl, codec>>

LoadKeyPairInputs ==
    {[privateKey |-> PrivKey(1), publicKey |-> Key(1)],
     [privateKey |-> NULL, publicKey |-> Key(1)]}

\* tx.getMessage().addAccount(programId, false, false)
LoadProgram ==
    LET r == Message_addAccount(message, Key(0), FALSE, FALSE)
    IN  /\ LoadCall("addAccount", <<Key(0), FALSE, FALSE>>,
                    [t |-> [Tx EXCEPT !.message = r.m], ret |-> r.ret])
        /\ UNCHANGED blockhashCalled

\* tx.addInstruction(programId, NULL, 0, data, dataLength)
LoadInstruction ==
    \E d \in LoadDataInputs :
        LET r == Transaction_addInstruction(Tx, Key(0), <<>>, 0, d.data, d.dataLength)
        IN  /\ LoadCall("addInstruction", <<Key(0), <<>>, d>>, r)
            /\ UNCHANGED blockhashCalled

\* tx.sign(privateKey, publicKey)
LoadSign ==
    \E kp \in LoadKeyPairInputs :
        LET r == Transaction_sign(Tx, kp.privateKey, kp.publicKey)
        IN  /\ LoadCall("sign", <<kp.privateKey, kp.publicKey>>, r)
            /\ UNCHANGED blockhashCalled

NextLoad ==
    \/ LoadProgram
    \/ LoadInstruction
    \/ LoadSign

SpecLoad == Init /\ [][NextLoad]_vars

\* ------------------------------------------------------------------------
\* The caller of the bundled signing engine: a keypair is generated, messages
\* are signed with it and each signature is verified with its public key
\* ------------------------------------------------------------------------
\* what randombytes may write into the seed
SeedInputs == {Bytes(32, 1), [i \in 1..32 |-> i]}

\* the SHA-512 stand-ins
Sha512Inputs == {0, 1}

\* messages: empty, one byte, a few bytes
NaclMessageInputs == {<<>>, <<0>>, <<104, 101, 108, 108, 111>>, <<255, 255>>}

\* what an uninitialized gf[4] may hold: every limb 0, 1 or -1
StackFill(v) ==
    <<ForLimbs(LAMBDA i : v), ForLimbs(LAMBDA i : v),
      ForLimbs(LAMBDA i : v), ForLimbs(LAMBDA i : v)>>

StackInputs == {StackFill(0), StackFill(1), StackFill(-1)}

\* crypto_sign_keypair(pk, sk)
Keypair ==
    /\ \E seed \in SeedInputs, key \in Sha512Inputs :
          LET r == crypto_sign_keypair(seed, key)
          IN  nacl' = [NewNacl EXCEPT !.op = "keypair", !.key = key,
                                      !.pk = r.pk, !.sk = r.sk, !.ret = r.ret]
    /\ UNCHANGED <<txvars, codec>>

\* crypto_sign_detached(sig, &siglen, m, mlen, sk) with the keypair's sk
SignDetached ==
    /\ nacl.op # "new"
    /\ \E m \in NaclMessageInputs, q \in StackInputs :
          LET r == crypto_sign_detached(m, Len(m), nacl.sk, q, nacl.key)
          IN  nacl' = [nacl EXCEPT !.op = "sign", !.m = m, !.stack = q,
                                   !.sig = r.sig, !.ret = r.ret]
    /\ UNCHANGED <<txvars, codec>>

\* crypto_sign_verify_detached(sig, m, mlen, pk) of the signature just made,
\* with the message that was signed and the keypair's pk
VerifyDetached ==
    /\ nacl.op = "sign"
    /\ \E q \in StackInputs :
          nacl' = [nacl EXCEPT
                     !.op = "verify", !.stack = q,
                     !.ret = crypto_sign_verify_detached(nacl.sig, nacl.m, Len(nacl.m),
                                                         nacl.pk, q, nacl.key)]
    /\ UNCHANGED <<txvars, codec>>

NextNacl ==
    \/ Keypair
    \/ SignDetached
    \/ VerifyDetached

SpecNacl == Init /\ [][NextNacl]_vars

\* ------------------------------------------------------------------------
\* The caller of the text codecs: byte arrays are encoded, texts decoded,
\* and the transaction, empty or with its blockhash set, is encoded for
\* submission
\* ------------------------------------------------------------------------
\* The byte arrays are encoded and decoded while the transaction is still
\* untouched (calls = 0).
\* byte arrays: all zero, leading zeros before other bytes, no leading zero
ByteInputs ==
    {<<0>>, <<0, 0>>, <<0, 1>>, <<0, 0, 5>>, <<65>>, <<65, 66>>,
     <<255, 255, 255>>, <<1, 2, 3, 4>>, <<1, 2, 3, 4, 5, 6>>}

\* the sizes of the output arrays
OutputLenInputs == {0, 1, 2, 3, 4, 5, 9, 16}

\* what lies behind the data in memory
PastInputs == {<<>>, <<0, 0, 0>>, <<255, 1, 2, 3, 4, 5>>}

\* texts that no encoder produced: '0' is in neither alphabet of base58,
\* "QQ" has no padding
TextInputs == {<<48>>, <<50, 48>>, <<81, 81>>}

\* the sizes of the output array handed to encodeTransactionBase58
TransactionOutputLenInputs == {0, 1, 4, 8, 24}

\* base58Encode(data, len, output, outputLen)
Base58Encode ==
    /\ calls = 0
    /\ \E x \in ByteInputs, n \in OutputLenInputs :
          LET r == base58Encode(x, Len(x), n)
          IN  codec' = [NewCodec EXCEPT !.op = "base58Encode", !.data = x,
                                        !.outputLen = n, !.text = r.output, !.ret = r.ret]
    /\ UNCHANGED <<txvars, nacl>>

\* base58Decode(input, output, outputLen) of the text just encoded, or of
\* another text
Base58Decode ==
    /\ calls = 0
    /\ codec.op = "base58Encode"
    /\ \E t \in {codec.text} \cup TextInputs, n \in OutputLenInputs :
          LET r == base58Decode(t, n)
          IN  codec' = [codec EXCEPT !.op = "base58Decode", !.text = t,
                                     !.outputLen = n, !.out = r.output, !.ret = r.ret]
    /\ UNCHANGED <<txvars, nacl>>

\* Base64::encode(data, dataLen, output, outputLen)
Base64Encode ==
    /\ calls = 0
    /\ \E x \in ByteInputs \cup {<<>>}, n \in OutputLenInputs, past \in PastInputs :
          LET r == Base64_encode(x, Len(x), n, past)
          IN  codec' = [NewCodec EXCEPT !.op = "Base64::encode", !.data = x,
                                        !.outputLen = n, !.text = r.output, !.ret = r.ret,
                                        !.readPast = r.readPast,
                                        !.wrotePast = r.wrotePast,
                                        !.returned = r.returned]
    /\ UNCHANGED <<txvars, nacl>>

\* Base64::decode(input, output, outputLen) of the text just encoded, or of
\* another text
Base64Decode ==
    /\ calls = 0
    /\ codec.op = "Base64::encode"
    /\ codec.returned
    /\ \E t \in {codec.text} \cup TextInputs, n \in OutputLenInputs :
          LET r == Base64_decode(t, n)
          IN  codec' = [codec EXCEPT !.op = "Base64::decode", !.text = t,
                                     !.outputLen = n, !.out = r.output, !.ret = r.ret]
    /\ UNCHANGED <<txvars, nacl>>

\* TransactionSerializer::encodeTransactionBase58(tx, output, outputLen)
EncodeTransactionBase58 ==
    /\ \E n \in TransactionOutputLenInputs :
          LET r == encodeTransactionBase58(Tx, n)
          IN  codec' = [NewCodec EXCEPT !.op = "encodeTransactionBase58",
                                        !.outputLen = n, !.text = r.output, !.ret = r.ret]
    /\ UNCHANGED <<txvars, nacl>>

\* tx.setRecentBlockhash(blockhash) by the caller of the codecs, who builds
\* the transaction after the byte arrays are done with
SetBlockhashToEncode ==
    /\ codec.op \in {"new", "encodeTransactionBase58"}
    /\ SetRecentBlockhash

NextCodec ==
    \/ Base58Encode
    \/ Base58Decode
    \/ Base64Encode
    \/ Base64Decode
    \/ EncodeTransactionBase58
    \/ SetBlockhashToEncode

SpecCodec == Init /\ [][NextCodec]_vars

\* ------------------------------------------------------------------------
\* The wire layout, stated from the format and not from the serializer
\* ------------------------------------------------------------------------
\* compact-u16 (shortvec) of v < 65536
ShortVec(v) ==
    IF v < 128 THEN <<v>>
    ELSE IF v < 16384 THEN <<128 + (v % 128), v \div 128>>
    ELSE <<128 + (v % 128), 128 + ((v \div 128) % 128), v \div 16384>>

WireInstruction(inst) ==
    <<inst.programIdIndex>>
    \o ShortVec(inst.accountCount) \o inst.accountIndices
    \o ShortVec(inst.dataLength) \o inst.data

WireMessage(m) ==
    <<m.header.numRequiredSignatures,
      m.header.numReadonlySignedAccounts,
      m.header.numReadonlyUnsignedAccounts>>
    \o ShortVec(m.accountCount) \o Flatten(m.accountKeys)
    \o m.recentBlockhash
    \o ShortVec(m.instructionCount)
    \o Flatten([i \in 1..Len(m.instructions) |-> WireInstruction(m.instructions[i])])

\* ------------------------------------------------------------------------
\* Properties
\* ------------------------------------------------------------------------
NonNullKeys == PubkeyInputs \ {NULL}

\* the role with which key k entered the table of m
RoleOf(m, k) == CHOOSE r \in m.added : r.key = k

\* the four-zone partition of the account table of m
FourZones(m) ==
    LET h == m.header
        n == m.accountCount
        key(i) == m.accountKeys[i + 1]
    IN  /\ Len(m.accountKeys) = n
        /\ \A i, j \in 0..(n - 1) : key(i) = key(j) => i = j
        /\ \A i \in 0..(n - 1) : Cardinality({r \in m.added : r.key = key(i)}) = 1
        /\ \A i \in 0..(n - 1) :
              LET r == RoleOf(m, key(i))
              IN  /\ r.isSigner <=> i < h.numRequiredSignatures
                  /\ (r.isSigner /\ r.isWritable)
                        <=> i < h.numRequiredSignatures - h.numReadonlySignedAccounts
                  /\ (~r.isSigner /\ ~r.isWritable)
                        <=> i >= n - h.numReadonlyUnsignedAccounts
        /\ h.numRequiredSignatures =
              Cardinality({i \in 0..(n - 1) : RoleOf(m, key(i)).isSigner})
        /\ h.numReadonlySignedAccounts =
              Cardinality({i \in 0..(n - 1) :
                              RoleOf(m, key(i)).isSigner /\ ~RoleOf(m, key(i)).isWritable})
        /\ h.numReadonlyUnsignedAccounts =
              Cardinality({i \in 0..(n - 1) :
                              ~RoleOf(m, key(i)).isSigner /\ ~RoleOf(m, key(i)).isWritable})

\* C1: after any sequence of addAccount calls the account table is
\* partitioned into writable signers, readonly signers, writable
\* non-signers, readonly non-signers, and the header counters are the zone
\* sizes.  Checked of the table in every reachable state and of the table
\* after one more addAccount with any key and any role flags.
C1_FourZoneOrder ==
    /\ FourZones(message)
    /\ \A k \in PubkeyInputs, isSigner \in BOOLEAN, isWritable \in BOOLEAN :
          FourZones(Message_addAccount(message, k, isSigner, isWritable).m)

\* a full table built by three inserting addAccount calls, the last one
\* placed in front of a readonly signer and a non-signer
C1_Witness ==
    /\ op = "addAccount"
    /\ calls = 3
    /\ ret = 0
    /\ message.accountCount = 3
    /\ message.header.numRequiredSignatures = 2
    /\ message.header.numReadonlySignedAccounts = 1

\* the table index of pubkey in m
IndexOf(m, pubkey) ==
    CHOOSE i \in 0..(m.accountCount - 1) : m.accountKeys[i + 1] = pubkey

InTable(m, pubkey) ==
    \E i \in 0..(m.accountCount - 1) : m.accountKeys[i + 1] = pubkey

\* C2: after sign(privateKey, publicKey) returns true, signatureCount is the
\* message's numRequiredSignatures, the slot at the signer's account index
\* holds the signature of the wire encoding of the message as it stands at
\* return, every other slot is all-zero, and isValid is true.
C2_SignPostcondition ==
    \A kp \in KeyPairInputs :
        LET r == Transaction_sign(Tx, kp.privateKey, kp.publicKey)
            m == r.t.message
        IN  r.ret =>
              /\ InTable(m, kp.publicKey)
              /\ r.t.signatureCount = m.header.numRequiredSignatures
              /\ r.t.signatures[IndexOf(m, kp.publicKey)]
                    = crypto_sign_ed25519_detached(WireMessage(m), kp.privateKey)
              /\ \A j \in DOMAIN r.t.signatures :
                    j # IndexOf(m, kp.publicKey) => r.t.signatures[j] = ZeroSignature
              /\ r.t.isValid

\* a successful sign by the second of two signers
C2_Witness ==
    /\ op = "sign"
    /\ ret = TRUE
    /\ isValid
    /\ signatureCount = 2
    /\ message.header.numRequiredSignatures = 2
    /\ signatures[0] = ZeroSignature
    /\ signatures[1] # ZeroSignature
    /\ signatures[1].msg = WireMessage(message)

\* the claim of C3: addInstruction with a listed account key that is not in
\* the account table returns false and leaves instructionCount unchanged
C3_UnregisteredAccountFails ==
    \A programId \in NonNullKeys, accounts \in AccountLists, d \in DataInputs :
        (\E i \in 1..Len(accounts) :
            /\ accounts[i] # NULL
            /\ accounts[i] # programId
            /\ ~InTable(message, accounts[i]))
        => LET r == Message_addInstruction(message, programId, accounts, Len(accounts),
                                           d.data, d.dataLength)
           IN  /\ r.ret = FALSE
               /\ r.m.instructionCount = message.instructionCount

\* the claim of C4: addInstruction with a program id that is not in the
\* table (and the table not full) registers it as a readonly non-signer and
\* stores its table index as programIdIndex
C4_ProgramIdRegistered ==
    \A programId \in NonNullKeys, accounts \in AccountLists, d \in DataInputs :
        (~InTable(message, programId) /\ message.accountCount < MAX_ACCOUNTS)
        => LET r == Message_addInstruction(message, programId, accounts, Len(accounts),
                                           d.data, d.dataLength)
           IN  r.ret =>
                 /\ r.m.accountCount = message.accountCount + 1
                 /\ r.m.header.numReadonlyUnsignedAccounts
                       = message.header.numReadonlyUnsignedAccounts + 1
                 /\ InTable(r.m, programId)
                 /\ r.m.instructions[r.m.instructionCount].programIdIndex
                       = IndexOf(r.m, programId)

\* C5: with a large enough buffer serializeMessage succeeds and emits
\* exactly the header, the compact-u16 account count, the keys, the
\* blockhash, the compact-u16 instruction count and the instructions, and
\* serializedLen is the number of bytes emitted.  Checked with the 2048-byte
\* buffer sign uses and with a buffer one byte longer than the encoding.
C5_MessageWireLayout ==
    \A bufferLen \in {SIGN_BUFFER_SIZE, Len(WireMessage(message)) + 1} :
        LET r == serializeMessage(message, bufferLen, 0)
        IN  /\ r.ret
            /\ r.buffer = WireMessage(message)
            /\ r.serializedLen = Len(r.buffer)
            /\ ~r.oob

\* sign has serialized a message with two signers, one of them readonly,
\* and an instruction with an account index and a two-byte data length
C5_Witness ==
    /\ op = "sign"
    /\ ret = TRUE
    /\ message.header.numReadonlySignedAccounts # message.header.numReadonlyUnsignedAccounts
    /\ message.instructionCount = 1
    /\ message.instructions[1].accountCount >= 1
    /\ message.instructions[1].dataLength >= 128
    /\ \E i \in DOMAIN signatures :
          /\ signatures[i] # ZeroSignature
          /\ signatures[i].msg = serializeMessage(message, SIGN_BUFFER_SIZE, 0).buffer

\* the 8 little-endian bytes of an amount given as 16-bit limbs
LittleEndian8(amount) ==
    Flatten([k \in 1..4 |-> <<amount[k] % 256, amount[k] \div 256>>])

\* what C6 says of the message left by addTransferInstruction(A, B, amount),
\* but for the header
TransferShape(m, A, B, amount) ==
    /\ m.accountCount = 3
    /\ m.accountKeys = <<A, B, ZeroKey>>
    /\ m.instructionCount = 1
    /\ Len(m.instructions) = 1
    /\ m.instructions[1].programIdIndex = 2
    /\ m.instructions[1].accountCount = 2
    /\ m.instructions[1].accountIndices = <<0, 1>>
    /\ m.instructions[1].dataLength = 12
    /\ m.instructions[1].data = <<2, 0, 0, 0>> \o LittleEndian8(amount)

TransferKeys == NonNullKeys \ {ZeroKey}

\* the claim of C6 as written: header (1, 0, 0)
C6_TransferHeader100 ==
    \A A \in TransferKeys : \A B \in TransferKeys \ {A} : \A amount \in AmountInputs :
        LET r == Transaction_addTransferInstruction(Tx, A, B, amount)
        IN  Tx = NewTransaction =>
            /\ r.ret
            /\ r.t.message.header = [numRequiredSignatures |-> 1,
                                     numReadonlySignedAccounts |-> 0,
                                     numReadonlyUnsignedAccounts |-> 0]
            /\ TransferShape(r.t.message, A, B, amount)

\* C6 (amended): for distinct non-zero keys A and B and any amount,
\* addTransferInstruction(A, B, amount) on an empty transaction (the initial
\* state), and on any other reachable one, yields header (1, 0, 1) - the system program is a
\* readonly non-signer - the table [A, B, system program] and one
\* instruction with programIdIndex 2, accounts [0, 1] and the payload
\* 02 00 00 00 followed by the amount in 8 little-endian bytes.
C6_TransferMessage ==
    \A A \in TransferKeys : \A B \in TransferKeys \ {A} : \A amount \in AmountInputs :
        LET r == Transaction_addTransferInstruction(Tx, A, B, amount)
        IN      /\ r.ret
                /\ r.t.message.header = [numRequiredSignatures |-> 1,
                                         numReadonlySignedAccounts |-> 0,
                                         numReadonlyUnsignedAccounts |-> 1]
                /\ TransferShape(r.t.message, A, B, amount)

\* addTransferInstruction(Key(1), Key(2), 0x0807060504030201) as the first
\* call on a new transaction
C6_Witness ==
    /\ op = "addTransferInstruction"
    /\ ret = TRUE
    /\ calls = 1
    /\ message.header.numReadonlyUnsignedAccounts = 1
    /\ message.accountKeys = <<Key(1), Key(2), ZeroKey>>
    /\ message.instructions[1].data = <<2, 0, 0, 0, 1, 2, 3, 4, 5, 6, 7, 8>>

\* the claim of C7: a successful addTransferInstruction leaves the blockhash
\* and the instructions already stored unchanged and adds one instruction
C7_TransferAppends ==
    \A from \in NonNullKeys, to \in NonNullKeys, amount \in AmountInputs :
        LET r == Transaction_addTransferInstruction(Tx, from, to, amount)
            n == message.instructionCount
        IN  r.ret =>
              /\ r.t.message.recentBlockhash = message.recentBlockhash
              /\ r.t.message.instructionCount = n + 1
              /\ SubSeq(r.t.message.instructions, 1, n) = message.instructions

BlockhashField(m, bytes) ==
    LET start == 3 + Len(ShortVec(m.accountCount)) + m.accountCount * SOLDUINO_PUBKEY_SIZE
    IN  SubSeq(bytes, start + 1, start + BLOCKHASH_SIZE)

C9_UnsignedNeverEmitted ==
    \A bufferLen \in BufferLenInputs :
        (\E i \in 0..(message.header.numRequiredSignatures - 1) :
            signatures[i] = ZeroSignature)
        => serializeTransaction(Tx, bufferLen, 0).ret = FALSE

\* the pairs the properties of signMultiple range over
SignPairInputs ==
    {[privateKey |-> PrivKey(b), publicKey |-> Key(b)] : b \in 1..2}
    \cup {[privateKey |-> NULL, publicKey |-> Key(1)]}

SignPairLists == UNION {[1..n -> SignPairInputs] : n \in 0..MaxPairs}

PrivateKeysOf(pairs) == [i \in 1..Len(pairs) |-> pairs[i].privateKey]

PublicKeysOf(pairs) == [i \in 1..Len(pairs) |-> pairs[i].publicKey]

\* the transaction after sign has been called for the first k pairs in order
RECURSIVE AfterSigning(_, _, _)
AfterSigning(t, pairs, k) ==
    IF k = 0 THEN t
    ELSE Transaction_sign(AfterSigning(t, pairs, k - 1),
                          pairs[k].privateKey, pairs[k].publicKey).t

\* sign was invoked once for every pair, in order, each on the transaction
\* the calls before it left
SignedEveryPair(t, pairs, r) ==
    /\ Len(r.calls) = Len(pairs)
    /\ \A i \in 1..Len(pairs) :
          r.calls[i] =
             [privateKey |-> pairs[i].privateKey,
              publicKey |-> pairs[i].publicKey,
              ret |-> Transaction_sign(AfterSigning(t, pairs, i - 1),
                                       pairs[i].privateKey, pairs[i].publicKey).ret]
    /\ r.t = AfterSigning(t, pairs, Len(pairs))

\* the claim of C10: for every count, 0 included, signMultiple invokes sign
\* once for every pair in order and returns true exactly when every one of
\* those calls returned true
C10_SignMultipleAllPairs ==
    \A pairs \in SignPairLists :
        LET r == Transaction_signMultiple(Tx, PrivateKeysOf(pairs), PublicKeysOf(pairs),
                                          Len(pairs))
        IN  /\ SignedEveryPair(Tx, pairs, r)
            /\ r.ret = (\A i \in 1..Len(r.calls) : r.calls[i].ret)

\* C10 (amended): with count >= 1 and both arrays non-null, signMultiple
\* invokes sign once for every pair 0..count-1 in order, also after an
\* earlier pair has failed, and returns true exactly when every one of those
\* calls returned true; with count = 0 or a null array it makes no sign call,
\* leaves the transaction alone and returns false.
C10_SignMultiple ==
    \A pairs \in SignPairLists :
        LET n == Len(pairs)
            r == Transaction_signMultiple(Tx, PrivateKeysOf(pairs), PublicKeysOf(pairs), n)
            noKeys == Transaction_signMultiple(Tx, NULL, PublicKeysOf(pairs), n)
            noPubs == Transaction_signMultiple(Tx, PrivateKeysOf(pairs), NULL, n)
        IN  /\ n >= 1 =>
                /\ SignedEveryPair(Tx, pairs, r)
                /\ r.ret = (\A i \in 1..n : r.calls[i].ret)
            /\ n = 0 => (r.ret = FALSE /\ r.calls = <<>> /\ r.t = Tx)
            /\ noKeys.ret = FALSE /\ noKeys.calls = <<>> /\ noKeys.t = Tx
            /\ noPubs.ret = FALSE /\ noPubs.calls = <<>> /\ noPubs.t = Tx

\* signMultiple, the first call on a new transaction, has returned false
\* and yet left a signature: a pair after the failed one was signed
C10_Witness ==
    /\ op = "signMultiple"
    /\ ret = FALSE
    /\ calls = 1
    /\ isValid
    /\ signatureCount = 1
    /\ signatures[0] # ZeroSignature

\* ------------------------------------------------------------------------
\* C11: a failing sign rolls nothing back
\* ------------------------------------------------------------------------
\* the signing state of a transaction: slots, signatureCount, isValid
SigState(t) ==
    [signatures |-> t.signatures,
     signatureCount |-> t.signatureCount,
     isValid |-> t.isValid]

\* C11: whenever sign returns false, alone or as the last call made by
\* signMultiple, every signature slot, signatureCount and isValid are exactly
\* as the calls before it left them.
C11_FailedSignKeepsSignatures ==
    /\ \A kp \in KeyPairInputs :
           LET r == Transaction_sign(Tx, kp.privateKey, kp.publicKey)
           IN  ~r.ret => SigState(r.t) = SigState(Tx)
    /\ \A pairs \in SignPairLists :
           LET n == Len(pairs)
               r == Transaction_signMultiple(Tx, PrivateKeysOf(pairs),
                                             PublicKeysOf(pairs), n)
               prefix == SubSeq(pairs, 1, n - 1)
               before == IF n = 1 THEN Tx
                         ELSE Transaction_signMultiple(Tx, PrivateKeysOf(prefix),
                                                       PublicKeysOf(prefix), n - 1).t
           IN  (n >= 1 /\ ~r.calls[n].ret) => SigState(r.t) = SigState(before)

\* a sign call has failed on a transaction that an earlier call had signed,
\* and the signature is still there
C11_Witness ==
    /\ op = "sign"
    /\ ret = FALSE
    /\ isValid
    /\ signatureCount > 0
    /\ \E i \in DOMAIN signatures : signatures[i] # ZeroSignature

\* ------------------------------------------------------------------------
\* C12: addAccount of a key already in the table
\* ------------------------------------------------------------------------
\* the claim of C12: for every key already in the table, a full table
\* included, addAccount with any flags returns the key's index and leaves the
\* message unchanged
C12_AddAccountIdempotent ==
    \A i \in 1..message.accountCount : \A isSigner \in BOOLEAN, isWritable \in BOOLEAN :
        LET r == Message_addAccount(message, message.accountKeys[i], isSigner, isWritable)
        IN  /\ r.ret = IndexOf(message, message.accountKeys[i])
            /\ r.m = message

\* ------------------------------------------------------------------------
\* C13: sign with a key registered as a non-signer
\* ------------------------------------------------------------------------
\* the private keys a caller may pass
PrivateKeyInputs == {NULL} \cup {PrivKey(b) : b \in 0..NumKeys}

\* the keys of the table outside the signer zone
NonSignerKeys(m) ==
    {m.accountKeys[i + 1] : i \in m.header.numRequiredSignatures..(m.accountCount - 1)}

\* C13: sign with a publicKey that is in the account table at an index
\* >= numRequiredSignatures returns false and leaves the message, every
\* signature slot, signatureCount and isValid unchanged: the key is not
\* promoted to a signer.
C13_NonSignerCannotSign ==
    \A publicKey \in NonSignerKeys(message) : \A privateKey \in PrivateKeyInputs :
        LET r == Transaction_sign(Tx, privateKey, publicKey)
        IN  /\ r.ret = FALSE
            /\ r.t = Tx

\* sign has been called with a private key and the public key of an account
\* registered as a non-signer, and has returned false; the key is still
\* outside the signer zone
C13_Witness ==
    /\ op = "sign"
    /\ ret = FALSE
    /\ arg[1] # NULL
    /\ arg[2] \in NonSignerKeys(message)
    /\ message.header.numRequiredSignatures > 0

\* ------------------------------------------------------------------------
\* C14: sign then verify with the bundled engine
\* ------------------------------------------------------------------------
\* the claim of C14: verifying the detached signature the engine produced
\* for a message, with the same message and the public key of the keypair
\* that signed, returns 0
C14_SignThenVerify ==
    nacl.op = "verify" => nacl.ret = 0

\* ------------------------------------------------------------------------
\* C15, C16, C20: the text codecs
\* ------------------------------------------------------------------------
\* an output array no result of the byte arrays above can fill
BigBuffer == 16

\* the sizes of an output array that hold n bytes
RoomFor(n) == {k \in OutputLenInputs : k >= n /\ k > 0}

\* the claim of C15: for a non-empty byte array x, leading zero bytes
\* before other bytes included, and arrays large enough, base58Decode of
\* base58Encode(x) returns Len(x) and the bytes of x
C15_Base58RoundTrip ==
    (codec.op = "base58Encode" /\ Len(codec.data) > 0
        /\ codec.outputLen > 2 * Len(codec.data))
    => \A n \in RoomFor(Len(codec.data)) :
          LET d == base58Decode(codec.text, n)
          IN  /\ d.ret = Len(codec.data)
              /\ SubSeq(d.output, 1, d.ret) = codec.data

\* the claim of C16: for a byte array x of any length, 0, 1 and 2 included,
\* Base64::encode returns without reading behind x, and Base64::decode of
\* its text yields exactly the bytes of x
C16_Base64RoundTrip ==
    (codec.op = "Base64::encode" /\ codec.outputLen > 2 * Len(codec.data) + 4)
    => /\ codec.returned
       /\ ~codec.readPast
       /\ \A n \in RoomFor(Len(codec.data)) :
             LET d == Base64_decode(codec.text, n)
             IN  /\ d.ret = Len(codec.data)
                 /\ SubSeq(d.output, 1, d.ret) = codec.data

\* the leading zero bytes of the serialized transaction and one digit for
\* what follows them: no more characters than its base58 text has
TransactionTextAtLeast(t) ==
    LET ser == serializeTransaction(t, calculateTransactionSize(t) + 100, 0)
        zeros == SkipWhile(ser.buffer, 0, 0, ser.serializedLen)
    IN  IF zeros < ser.serializedLen THEN zeros + 1 ELSE zeros

\* the claim of C20: a codec call whose output array cannot hold the whole
\* result (the text and its terminator, or the bytes) returns 0, and
\* encodeTransactionBase58 returns false when the array cannot hold the
\* whole text of the transaction
C20_SmallBufferIsAnError ==
    /\ (codec.op = "base58Encode" /\ Len(codec.data) > 0
          /\ base58Encode(codec.data, Len(codec.data), BigBuffer).ret + 1 > codec.outputLen)
       => codec.ret = 0
    /\ (codec.op = "base58Decode"
          /\ base58Decode(codec.text, BigBuffer).ret > codec.outputLen)
       => codec.ret = 0
    /\ (codec.op = "Base64::encode"
          /\ ((Len(codec.data) + 2) \div 3) * 4 + 1 > codec.outputLen)
       => codec.ret = 0
    /\ (codec.op = "Base64::decode"
          /\ Base64_decode(codec.text, BigBuffer).ret > codec.outputLen)
       => codec.ret = 0
    /\ (codec.op = "encodeTransactionBase58"
          /\ TransactionTextAtLeast(Tx) + 1 > codec.outputLen)
       => codec.ret = FALSE

\* ------------------------------------------------------------------------
\* C17: reset()
\* ------------------------------------------------------------------------
\* the empty state, field by field
EmptyState(t) ==
    /\ \A i \in 0..(MAX_ACCOUNTS - 1) : t.signatures[i] = ZeroSignature
    /\ t.signatureCount = 0
    /\ t.isValid = FALSE
    /\ t.message.accountCount = 0
    /\ t.message.accountKeys = <<>>
    /\ t.message.header.numRequiredSignatures = 0
    /\ t.message.header.numReadonlySignedAccounts = 0
    /\ t.message.header.numReadonlyUnsignedAccounts = 0
    /\ t.message.instructionCount = 0
    /\ t.message.instructions = <<>>
    /\ t.message.recentBlockhash = Blockhash(0)

\* C17: from every reachable state reset() leaves the transaction in the
\* empty state: zero signature slots, signatureCount 0, isValid false, no
\* accounts, zero header counters, no instructions, an all-zero blockhash;
\* the object is then the one the constructor makes, so every later call
\* behaves as on a new Transaction
C17_ResetEmpties ==
    /\ EmptyState(Transaction_reset(Tx))
    /\ Transaction_reset(Tx) = NewTransaction
    /\ op = "reset" => EmptyState(Tx) /\ Tx = NewTransaction

\* C17 witness: a transaction with accounts, a header, an instruction, a
\* blockhash, a signature and isValid set, on which reset() has work to do
C17_Witness ==
    /\ signatureCount > 0
    /\ signatures[0] # ZeroSignature
    /\ isValid
    /\ message.accountCount > 0
    /\ message.header.numRequiredSignatures > 0
    /\ message.header.numReadonlyUnsignedAccounts > 0
    /\ message.instructionCount > 0
    /\ message.recentBlockhash # Blockhash(0)
    /\ ~EmptyState(Tx)

\* ------------------------------------------------------------------------
\* C18: the account table at capacity
\* ------------------------------------------------------------------------
\* C18: addAccount of a key that is not in the table, when accountCount is
\* MAX_ACCOUNTS, returns -1 and leaves the table, accountCount and the
\* header as they were; accountCount is at most MAX_ACCOUNTS in every
\* reachable state
C18_FullTableRejectsNewKey ==
    /\ message.accountCount <= MAX_ACCOUNTS
    /\ Len(message.accountKeys) = message.accountCount
    /\ message.accountCount = MAX_ACCOUNTS
       => \A pubkey \in NonNullKeys, isSigner \in BOOLEAN, isWritable \in BOOLEAN :
             ~InTable(message, pubkey)
             => LET r == Message_addAccount(message, pubkey, isSigner, isWritable)
                IN  /\ r.ret = -1
                    /\ r.m.accountKeys = message.accountKeys
                    /\ r.m.accountCount = message.accountCount
                    /\ r.m.header = message.header
                    /\ r.m = message

\* C18 witness: addAccount of a key that is not in the full table has just
\* returned -1
C18_Witness ==
    /\ op = "addAccount"
    /\ ret = -1
    /\ arg[1] # NULL
    /\ ~InTable(message, arg[1])
    /\ message.accountCount = MAX_ACCOUNTS

\* ------------------------------------------------------------------------
\* C19: the instruction limits
\* ------------------------------------------------------------------------
\* C19: addInstruction with dataLength above MAX_INSTRUCTION_DATA, or when
\* instructionCount is MAX_INSTRUCTIONS, returns false and leaves the
\* account table, the header, the stored instructions and instructionCount
\* as they were; instructionCount is at most MAX_INSTRUCTIONS and every
\* stored dataLength at most MAX_INSTRUCTION_DATA in every reachable state
C19_InstructionLimits ==
    /\ message.instructionCount <= MAX_INSTRUCTIONS
    /\ Len(message.instructions) = message.instructionCount
    /\ \A i \in 1..message.instructionCount :
          /\ message.instructions[i].dataLength <= MAX_INSTRUCTION_DATA
          /\ Len(message.instructions[i].data) = message.instructions[i].dataLength
    /\ \A programId \in PubkeyInputs, accounts \in CallAccountLists, d \in DataInputs :
          (d.dataLength > MAX_INSTRUCTION_DATA
             \/ message.instructionCount = MAX_INSTRUCTIONS)
          => LET r == Message_addInstruction(message, programId, accounts, Len(accounts),
                                             d.data, d.dataLength)
             IN  /\ r.ret = FALSE
                 /\ r.m.accountKeys = message.accountKeys
                 /\ r.m.accountCount = message.accountCount
                 /\ r.m.header = message.header
                 /\ r.m.instructions = message.instructions
                 /\ r.m.instructionCount = message.instructionCount

\* C19 witness: addInstruction with a program id, room for an instruction
\* and a payload one byte too long has just returned false
C19_Witness ==
    /\ op = "addInstruction"
    /\ ret = FALSE
    /\ arg[1] # NULL
    /\ arg[3].dataLength > MAX_INSTRUCTION_DATA
    /\ message.instructionCount > 0
    /\ message.instructionCount < MAX_INSTRUCTIONS

\* ------------------------------------------------------------------------
\* C21: the size estimates
\* ------------------------------------------------------------------------
\* the capacities transaction.h compiles in when none is given
DEFAULT_MAX_ACCOUNTS == 16
DEFAULT_MAX_INSTRUCTIONS == 8

\* the sums of calculateMessageSize and calculateTransactionSize in unbounded
\* integers, for a message with the given number of accounts, instructions
\* that each name accountsPer accounts and carry dataPer bytes, and the
\* given number of signatures
SizeSum(accounts, instrs, accountsPer, dataPer, sigs) ==
    2 + sigs * SIGNATURE_SIZE
    + 3 + 2 + accounts * SOLDUINO_PUBKEY_SIZE + BLOCKHASH_SIZE + 2
    + instrs * (1 + 2 + accountsPer + 2 + dataPer)

\* the same sum for the message m and the transaction t
RECURSIVE InstructionSizeSum(_, _)
InstructionSizeSum(m, i) ==
    IF i > m.instructionCount THEN 0
    ELSE 1 + 2 + m.instructions[i].accountCount + 2 + m.instructions[i].dataLength
         + InstructionSizeSum(m, i + 1)

MessageSizeSum(m) ==
    3 + 2 + m.accountCount * SOLDUINO_PUBKEY_SIZE + BLOCKHASH_SIZE + 2
    + InstructionSizeSum(m, 1)

TransactionSizeSum(t) == 2 + t.signatureCount * SIGNATURE_SIZE + MessageSizeSum(t.message)

\* C21: for every reachable transaction calculateMessageSize is at least the
\* length serializeMessage produces and calculateTransactionSize at least
\* the length serializeTransaction produces, and neither size wraps at 16
\* bits, also not for the largest contents the default capacities allow
C21_SizeIsUpperBound ==
    /\ calculateMessageSize(message) = MessageSizeSum(message)
    /\ calculateTransactionSize(Tx) = TransactionSizeSum(Tx)
    /\ SizeSum(DEFAULT_MAX_ACCOUNTS, DEFAULT_MAX_INSTRUCTIONS, DEFAULT_MAX_ACCOUNTS,
               MAX_INSTRUCTION_DATA, DEFAULT_MAX_ACCOUNTS) < 65536
    /\ LET checkMessage(ser) ==
               ser.ret => calculateMessageSize(message) >= ser.serializedLen
                          /\ ser.serializedLen = Len(ser.buffer)
       IN  checkMessage(serializeMessage(message, SIGN_BUFFER_SIZE, 0))
    /\ LET checkTransaction(ser) ==
               ser.ret => calculateTransactionSize(Tx) >= ser.serializedLen
                          /\ ser.serializedLen = Len(ser.buffer)
       IN  checkTransaction(serializeTransaction(Tx, SIGN_BUFFER_SIZE, 0))

\* C21 witness: a signed transaction with an instruction whose data length
\* takes two bytes on the wire has just been serialized
C21_Witness ==
    /\ op = "serializeTransaction"
    /\ ret = TRUE
    /\ signatureCount > 0
    /\ message.instructionCount > 0
    /\ message.instructions[1].dataLength >= 128
    /\ serializeTransaction(Tx, SIGN_BUFFER_SIZE, 0).serializedLen
         < calculateTransactionSize(Tx)

\* ------------------------------------------------------------------------
\* C22: signMultiple with several required signers
\* ------------------------------------------------------------------------
\* the claim of C22: after signMultiple has returned true on a message
\* whose k >= 2 required signers were all among the pairs, every slot
\* 0..k-1 holds a non-zero signature and serializeTransaction succeeds
C22_SignMultipleFillsSlots ==
    (/\ op = "signMultiple"
     /\ ret = TRUE
     /\ message.header.numRequiredSignatures >= 2
     /\ \A i \in 1..message.header.numRequiredSignatures :
           \E j \in 1..Len(arg) : arg[j].publicKey = message.accountKeys[i])
    => /\ \A i \in 0..(message.header.numRequiredSignatures - 1) :
             signatures[i] # ZeroSignature
       /\ serializeTransaction(Tx, SIGN_BUFFER_SIZE, 0).ret

\* ------------------------------------------------------------------------
\* C23: what a stored instruction refers to
\* ------------------------------------------------------------------------
\* the non-null entries of an account list, in order
RECURSIVE NonNullEntries(_)
NonNullEntries(accounts) ==
    IF accounts = <<>> THEN <<>>
    ELSE (IF Head(accounts) = NULL THEN <<>> ELSE <<Head(accounts)>>)
         \o NonNullEntries(Tail(accounts))

\* in the message m the instruction inst names the program programId and
\* the account keys `keys`
RefersTo(m, inst, programId, keys) ==
    /\ inst.programIdIndex < m.accountCount
    /\ m.accountKeys[inst.programIdIndex + 1] = programId
    /\ inst.accountCount = Len(keys)
    /\ \A j \in 1..Len(keys) :
          /\ inst.accountIndices[j] < m.accountCount
          /\ m.accountKeys[inst.accountIndices[j] + 1] = keys[j]

\* the claim of C23: an instruction that addInstruction stored for a
\* program id and account keys of the table still names them after a later
\* addAccount, also the one sign makes for a signer that is not in the table
C23_InstructionKeysStable ==
    \A programId \in NonNullKeys, accounts \in CallAccountLists :
        LET a == Message_addInstruction(message, programId, accounts, Len(accounts), NULL, 0)
            n == a.m.instructionCount
            keys == NonNullEntries(accounts)
        IN  (a.ret /\ RefersTo(a.m, a.m.instructions[n], programId, keys))
            => /\ \A key \in NonNullKeys, isSigner \in BOOLEAN, isWritable \in BOOLEAN :
                     LET b == Message_addAccount(a.m, key, isSigner, isWritable)
                     IN  RefersTo(b.m, b.m.instructions[n], programId, keys)
               /\ \A kp \in CallKeyPairInputs :
                     LET s == Transaction_sign([Tx EXCEPT !.message = a.m],
                                               kp.privateKey, kp.publicKey)
                     IN  RefersTo(s.t.message, s.t.message.instructions[n], programId, keys)

\* ------------------------------------------------------------------------
\* C24: mutation after signing
\* ------------------------------------------------------------------------
\* the signatures, their count and the validity of t are those of Tx
KeepsSigned(t) ==
    /\ t.isValid = TRUE
    /\ t.signatureCount = signatureCount
    /\ t.signatures = signatures

\* C24: once isValid is true, setRecentBlockhash, addInstruction,
\* addTransferInstruction and getMessage().addAccount leave isValid true and
\* signatureCount and every signature slot as they were, whatever they do
\* to the message
C24_MutationKeepsSigned ==
    isValid
    => /\ \A blockhash \in BlockhashInputs :
             KeepsSigned(Transaction_setRecentBlockhash(Tx, blockhash).t)
       /\ \A programId \in PubkeyInputs, accounts \in CallAccountLists, d \in DataInputs :
             KeepsSigned(Transaction_addInstruction(Tx, programId, accounts, Len(accounts),
                                                    d.data, d.dataLength).t)
       /\ \A from \in PubkeyInputs, to \in PubkeyInputs, amount \in AmountInputs :
             KeepsSigned(Transaction_addTransferInstruction(Tx, from, to, amount).t)
       /\ \A pubkey \in PubkeyInputs, isSigner \in BOOLEAN, isWritable \in BOOLEAN :
             KeepsSigned([Tx EXCEPT !.message =
                              Message_addAccount(message, pubkey, isSigner, isWritable).m])

\* C24 witness: a signed transaction whose blockhash has just been replaced:
\* it is still valid and the signature in slot 0 is over other bytes than
\* the message now serializes to
C24_Witness ==
    /\ op = "setRecentBlockhash"
    /\ ret = TRUE
    /\ isValid
    /\ signatureCount > 0
    /\ signatures[0] # ZeroSignature
    /\ signatures[0].msg # serializeMessage(message, SIGN_BUFFER_SIZE, 0).buffer

\* ------------------------------------------------------------------------
\* C25: the indices of the stored instructions
\* ------------------------------------------------------------------------
\* the claim of C25: in every reachable state the programIdIndex and every
\* accountIndices entry of every stored instruction is below accountCount
C25_IndicesInRange ==
    \A i \in 1..message.instructionCount :
        /\ message.instructions[i].programIdIndex < message.accountCount
        /\ \A j \in 1..message.instructions[i].accountCount :
              message.instructions[i].accountIndices[j] < message.accountCount

\* ------------------------------------------------------------------------
\* C26: where validity comes from
\* ------------------------------------------------------------------------
\* a new or reset transaction is invalid, and a valid one has a signature
\* count of at least 1
ValidityState ==
    /\ op \in {"new", "reset"} => ~isValid
    /\ isValid => signatureCount >= 1

\* a step that makes the transaction valid is a sign call that returned
\* true, or a signMultiple call one of whose sign calls returned true
ValidityStep ==
    (~isValid /\ isValid')
    => \/ op' = "sign" /\ ret' = TRUE
       \/ /\ op' = "signMultiple"
          /\ LET r == Transaction_signMultiple(Tx, PrivateKeysOf(arg'), PublicKeysOf(arg'),
                                               Len(arg'))
             IN  \E i \in 1..Len(r.calls) : r.calls[i].ret

\* C26: isValidTransaction() is true only if a sign call has succeeded since
\* construction or the last reset(): a new or reset transaction is invalid,
\* only a successful sign makes an invalid transaction valid, and a valid
\* transaction has signatureCount >= 1
C26_ValidOnlyBySign == [](ValidityState) /\ [][ValidityStep]_vars

\* C26 witness: sign has just returned true and the transaction is valid
C26_Witness ==
    /\ op = "sign"
    /\ ret = TRUE
    /\ isValid
    /\ signatureCount >= 1

\* ------------------------------------------------------------------------
\* C27: a sign that fails
\* ------------------------------------------------------------------------
\* the transaction t holds what the transaction holds now
SameTransaction(t) ==
    /\ t.message = message
    /\ t.signatures = signatures
    /\ t.signatureCount = signatureCount
    /\ t.isValid = isValid

CompactSize(v) == IF v < 128 THEN 1 ELSE IF v < 16384 THEN 2 ELSE 3

\* 128^i
RECURSIVE Pow128(_)
Pow128(i) == IF i = 0 THEN 1 ELSE 128 * Pow128(i - 1)

\* reading the format back: 7 bits per byte, low group first, up to the
\* first byte without 0x80 -> [value, size]
RECURSIVE ReadCompactU16(_, _, _)
ReadCompactU16(bytes, at, i) ==
    IF at + i > Len(bytes)
    THEN [value |-> 0 - 1, size |-> i]
    ELSE LET b == bytes[at + i]
         IN  IF b < 128
             THEN [value |-> b * Pow128(i), size |-> i + 1]
             ELSE LET more == ReadCompactU16(bytes, at, i + 1)
                  IN  [value |-> (b - 128) * Pow128(i) + more.value, size |-> more.size]

\* C28: writeCompactU16 with room for the encoding returns true, emits 1
\* byte for v < 128, 2 bytes for 128 <= v < 16384 and 3 bytes otherwise,
\* byte i holding bits 7i..7i+6 of v with 0x80 set on every byte except the
\* last; reading the bytes back gives v; offset has advanced by the number
\* of bytes emitted and the bytes before it are untouched
C28_CompactU16 ==
    (codec.op = "writeCompactU16" /\ codec.offset0 + CompactSize(codec.value) <= codec.maxLen)
    => LET v == codec.value
           n == CompactSize(v)
           at == codec.offset0
           back == ReadCompactU16(codec.buffer, at + 1, 0)
       IN  /\ codec.ret = TRUE
           /\ codec.offset = at + n
           /\ Len(codec.buffer) = at + n
           /\ SubSeq(codec.buffer, 1, at) = Bytes(at, 0)
           /\ \A i \in 0..(n - 1) :
                 codec.buffer[at + 1 + i]
                   = ((v \div Pow128(i)) % 128) + (IF i < n - 1 THEN 128 ELSE 0)
           /\ back.value = v
           /\ back.size = n
           /\ ~codec.oob

\* C28 witness: a three-byte value has been written behind two bytes
C28_Witness ==
    /\ codec.op = "writeCompactU16"
    /\ codec.value = UINT16_MAX
    /\ codec.offset0 = 2
    /\ codec.ret = TRUE
    /\ codec.buffer = <<0, 0, 255, 255, 3>>

\* ------------------------------------------------------------------------
\* C29: the serializers stay inside the caller's buffer
\* ------------------------------------------------------------------------
\* r is the outcome of a serializer called with a buffer of bufferLen bytes,
\* full the outcome of the same call with the largest buffer: nothing was
\* written at or beyond bufferLen, and a buffer shorter than the encoding
\* makes the call fail
InsideBuffer(r, full, bufferLen) ==
    /\ ~r.oob
    /\ Len(r.buffer) <= bufferLen
    /\ (full.ret /\ full.serializedLen > bufferLen) => ~r.ret
    /\ r.ret => (full.ret /\ r.buffer = full.buffer /\ r.serializedLen = Len(r.buffer))

\* C29: for every message and transaction and every bufferLen from 0 to
\* past the length of the encoding, serializeMessage and
\* serializeTransaction write only below bufferLen and return false when
\* the encoding does not fit
C29_WritesInsideBuffer ==
    LET fullMessage == serializeMessage(message, UINT16_MAX, 0)
        fullTransaction == serializeTransaction(Tx, UINT16_MAX, 0)
        inside(m, t) ==
            \A bufferLen \in 0..(calculateTransactionSize(Tx) + 1) :
                /\ InsideBuffer(serializeMessage(message, bufferLen, 0), m, bufferLen)
                /\ InsideBuffer(serializeTransaction(Tx, bufferLen, 0), t, bufferLen)
    IN  inside(fullMessage, fullTransaction)

\* C29 witness: a signed transaction with a two-byte data length whose
\* encoding is longer than 64 bytes, so that buffers of every shorter
\* length have been tried
C29_Witness ==
    /\ isValid
    /\ message.instructionCount > 0
    /\ \E i \in 1..message.instructionCount : message.instructions[i].dataLength >= 128
    /\ serializeTransaction(Tx, UINT16_MAX, 0).ret
    /\ ~serializeTransaction(Tx, serializeTransaction(Tx, UINT16_MAX, 0).serializedLen - 1, 0).ret

\* ------------------------------------------------------------------------
\* C30: the ladder of scalarmult
\* ------------------------------------------------------------------------
\* the loop of scalarmult has left the loop
LadderDone == nacl.op = "scalarmult" /\ ~(nacl.i >= 0)

\* C30: scalarmult goes through exactly 256 iterations whatever the scalar,
\* for bit 255 down to bit 0 in that order, and every iteration makes four
\* conditional selects on the bit it read, then one addition add(q, p) and
\* one doubling add(p, p); no iteration is left out or cut short
C30_LadderIsFixed ==
    nacl.op = "scalarmult"
    => /\ nacl.i \in (0 - 1)..255
       /\ Len(nacl.iterations) = 255 - nacl.i
       /\ LadderDone => Len(nacl.iterations) = 256
       /\ \A n \in 1..Len(nacl.iterations) :
             LET it == nacl.iterations[n]
                 b == (nacl.s[((256 - n) \div 8) + 1] \div (2 ^ ((256 - n) % 8))) % 2
             IN  /\ it.i = 256 - n
                 /\ Len(it.calls) = 6
                 /\ \A k \in 0..3 : it.calls[k + 1] = <<"sel25519", k, b>>
                 /\ it.calls[5] = <<"add", "q", "p">>
                 /\ it.calls[6] = <<"add", "p", "p">>

\* C30 witness: scalarmult has left the loop on a scalar whose only set bit
\* is bit 255
C30_Witness ==
    /\ LadderDone
    /\ nacl.s = [k \in 1..32 |-> IF k = 32 THEN 128 ELSE 0]
    /\ Len(nacl.iterations) = 256
    /\ nacl.iterations[1].calls[1] = <<"sel25519", 0, 1>>
    /\ nacl.iterations[256].calls[1] = <<"sel25519", 0, 0>>

====
